---- MODULE Spec2Model ----
(***************************************************************************)
(* Model of the bunnydb-http client: the pipeline encoder/decoder of       *)
(* src/src/decode.rs and the request-execution engine of                   *)
(* src/src/client.rs (query / execute / batch, the retry loop of           *)
(* send_pipeline_with_retry and the demultiplexing of the response).       *)
(*                                                                         *)
(* Strings that the code only passes through (SQL text, messages, bodies)  *)
(* are TLA+ strings; strings that the code parses or rewrites (decimal     *)
(* numerals, parameter names) are sequences of one-character strings.      *)
(* Rust indices are 0-based, TLA+ sequences 1-based: request index i is    *)
(* element i+1.                                                            *)
(***************************************************************************)
EXTENDS Integers, Sequences, FiniteSets, TLC

(***************************************************************************)
(* Bounds of the model.                                                    *)
(***************************************************************************)
MaxStmts == 2
MaxResults == 3
MaxRetries == 2
MaxName == 3
MaxText == 3
MaxCells == 2
MaxMantissa == 120
MaxScale == 3
MaxAttempt == 18

(***************************************************************************)
(* Option<T> and Result<T, BunnyDbError>.                                  *)
(***************************************************************************)
None == [some |-> FALSE]
Some(v) == [some |-> TRUE, v |-> v]

Ok(v) == [ok |-> TRUE, val |-> v]
Err(e) == [ok |-> FALSE, err |-> e]

\* One step of Iterator::collect::<Result<Vec<_>, _>>(): the element before
\* the rest, or the first error.
Collect(h, t) == IF ~h.ok THEN h ELSE IF ~t.ok THEN t ELSE Ok(<<h.val>> \o t.val)

(***************************************************************************)
(* BunnyDbError (src/src/error.rs).  A Decode message is kept as the       *)
(* message template (what), the request index it names (-1 when none) and  *)
(* the raw text it embeds (<<>> when none).                                *)
(***************************************************************************)
Transport(e) == [tag |-> "Transport", source |-> e]
Http(status, body) == [tag |-> "Http", status |-> status, body |-> body]
Pipeline(request_index, message, code) ==
  [tag |-> "Pipeline", request_index |-> request_index, message |-> message, code |-> code]
Decode(what, index, raw) == [tag |-> "Decode", what |-> what, index |-> index, raw |-> raw]

(***************************************************************************)
(* i64, scaled to 16 bits so that the range check of str::parse::<i64> is  *)
(* exercised within the integers TLC can represent.                        *)
(***************************************************************************)
I64_MAX == 32767
I64_MIN == -32768

Digits == <<"0", "1", "2", "3", "4", "5", "6", "7", "8", "9">>
IsDigit(c) == \E i \in 1..10 : Digits[i] = c
DigitVal(c) == (CHOOSE i \in 1..10 : Digits[i] = c) - 1

RECURSIVE NatToStr(_)
NatToStr(n) == IF n < 10 THEN <<Digits[n + 1]>>
               ELSE NatToStr(n \div 10) \o <<Digits[(n % 10) + 1]>>

\* i64::to_string: the decimal form, '-' for negatives, no '+', no padding.
IntToStr(v) == IF v < 0 THEN <<"-">> \o NatToStr(-v) ELSE NatToStr(v)

\* Magnitude of a digit string, -1 when a character is not a digit; the
\* accumulator saturates just above the i64 range (overflow is an error).
RECURSIVE DigitsVal(_, _)
DigitsVal(s, acc) ==
  IF s = <<>> THEN acc
  ELSE IF ~IsDigit(Head(s)) THEN -1
  ELSE LET n == acc * 10 + DigitVal(Head(s))
       IN DigitsVal(Tail(s), IF n > -I64_MIN THEN -I64_MIN + 1 ELSE n)

\* The text after an optional single sign.
Unsigned(s) == IF s # <<>> /\ Head(s) \in {"-", "+"} THEN Tail(s) ELSE s

Magnitude(digits) == IF digits = <<>> THEN -1 ELSE DigitsVal(digits, 0)

InI64(v) == IF v > I64_MAX \/ v < I64_MIN THEN Err("overflow") ELSE Ok(v)

Signed(neg, mag) == IF mag < 0 THEN Err("invalid digit") ELSE InI64(IF neg THEN -mag ELSE mag)

\* str::parse::<i64>: optional single sign, at least one digit, nothing else,
\* value inside the i64 range.
ParseI64(s) == IF s = <<>> THEN Err("empty") ELSE Signed(Head(s) = "-", Magnitude(Unsigned(s)))

(***************************************************************************)
(* f64.  A finite float is its shortest round-trip decimal m * 10^(-s)     *)
(* (the form f64::to_string prints and f64::from_str reads back; a text of *)
(* at most 15 significant digits, as all texts here are, names one float), *)
(* normalised so that m has no trailing zero; the non-finite values are    *)
(* classes of their own.  -0.0 is 0.0, as f64's == has it.                 *)
(***************************************************************************)
Finite(m, s) == [cls |-> "finite", m |-> m, s |-> s]
NaN == [cls |-> "nan", m |-> 0, s |-> 0]
PosInf == [cls |-> "inf", m |-> 0, s |-> 0]
NegInf == [cls |-> "-inf", m |-> 0, s |-> 0]
is_finite(f) == f.cls = "finite"

RECURSIVE Normalise(_, _)
Normalise(m, s) ==
  IF m = 0 THEN Finite(0, 0)
  ELSE IF m % 10 = 0 THEN Normalise(m \div 10, s - 1)
  ELSE Finite(m, s)

RECURSIVE Pow10(_)
Pow10(k) == IF k = 0 THEN 1 ELSE 10 * Pow10(k - 1)

RECURSIVE PadLeft(_, _)
PadLeft(s, n) == IF Len(s) >= n THEN s ELSE PadLeft(<<"0">> \o s, n)

Zeros(n) == [i \in 1..n |-> "0"]

Abs(m) == IF m < 0 THEN -m ELSE m

\* The digits of a finite float in plain notation: the integer part, and the
\* fraction when it is not zero.
PlainDecimal(a, s) ==
  IF s <= 0 THEN NatToStr(a) \o Zeros(-s)
  ELSE NatToStr(a \div Pow10(s)) \o <<".">> \o PadLeft(NatToStr(a % Pow10(s)), s)

\* f64::to_string (Display): "NaN", "inf", "-inf", otherwise plain decimal
\* notation without exponent.
FloatToStr(f) ==
  CASE f.cls = "nan" -> <<"N", "a", "N">>
    [] f.cls = "inf" -> <<"i", "n", "f">>
    [] f.cls = "-inf" -> <<"-", "i", "n", "f">>
    [] OTHER -> (IF f.m < 0 THEN <<"-">> ELSE <<>>) \o PlainDecimal(Abs(f.m), f.s)

Lower(c) == CASE c = "I" -> "i" [] c = "N" -> "n" [] c = "F" -> "f" [] c = "A" -> "a"
              [] c = "T" -> "t" [] c = "Y" -> "y" [] c = "E" -> "e" [] OTHER -> c
LowerStr(s) == [i \in 1..Len(s) |-> Lower(s[i])]

IndexOf(s, c) == IF \E i \in 1..Len(s) : s[i] = c
                 THEN CHOOSE i \in 1..Len(s) : s[i] = c /\ \A j \in 1..(i - 1) : s[j] # c
                 ELSE 0

\* The largest and smallest decimal exponents of f64 (1.797e308, 4.9e-324).
F64_MAX_10_EXP == 308
F64_MIN_10_EXP == -324

\* The first four digits of a, a > 0 with nd digits.
Lead4(a, nd) == IF nd <= 4 THEN a * Pow10(4 - nd) ELSE a \div Pow10(nd - 4)

\* The float nearest to m * 10^(-s), whose first digit stands at 10^x:
\* infinite beyond f64::MAX (compared on four digits), zero below the
\* smallest subnormal.
Nearest(f, x, neg) ==
  IF f.m = 0 THEN f
  ELSE IF x > F64_MAX_10_EXP
          \/ (x = F64_MAX_10_EXP /\ Lead4(Abs(f.m), Len(NatToStr(Abs(f.m)))) > 1797)
  THEN (IF neg THEN NegInf ELSE PosInf)
  ELSE IF x < F64_MIN_10_EXP THEN Finite(0, 0)
  ELSE f

Rounded(f, neg) == Nearest(f, Len(NatToStr(Abs(f.m))) - 1 - f.s, neg)

Decimal(neg, ip, fp, iv, fv, exp) ==
  IF Len(ip) + Len(fp) = 0 \/ iv < 0 \/ fv < 0 \/ ~exp.ok THEN Err("invalid float literal")
  ELSE Ok(Rounded(Normalise((IF neg THEN -1 ELSE 1) * (iv * Pow10(Len(fp)) + fv),
                            Len(fp) - exp.val),
                  neg))

\* Value of a digit string, -1 when a character is not a digit (the texts
\* here have at most nine digits).
RECURSIVE DecimalVal(_, _)
DecimalVal(s, acc) ==
  IF s = <<>> THEN acc
  ELSE IF ~IsDigit(Head(s)) THEN -1
  ELSE DecimalVal(Tail(s), acc * 10 + DigitVal(Head(s)))

DecimalParts(neg, ip, fp, exp) ==
  Decimal(neg, ip, fp, DecimalVal(ip, 0), DecimalVal(fp, 0), exp)

DecimalAt(neg, text, dot, exp) ==
  DecimalParts(neg,
               IF dot = 0 THEN text ELSE SubSeq(text, 1, dot - 1),
               IF dot = 0 THEN <<>> ELSE SubSeq(text, dot + 1, Len(text)),
               exp)

\* The exponent after 'e': optional single sign, at least one digit.
Exponent(neg, mag) == IF mag < 0 THEN Err("invalid exponent") ELSE Ok(IF neg THEN -mag ELSE mag)

ParseExponent(t) ==
  IF t = <<>> THEN Err("invalid exponent")
  ELSE Exponent(Head(t) = "-", Magnitude(Unsigned(t)))

Scientific(neg, text, e) ==
  IF e = 0 THEN DecimalAt(neg, text, IndexOf(text, "."), Ok(0))
  ELSE DecimalAt(neg, SubSeq(text, 1, e - 1), IndexOf(SubSeq(text, 1, e - 1), "."),
                 ParseExponent(SubSeq(text, e + 1, Len(text))))

UnsignedF64(neg, text, low) ==
  IF low \in {<<"i", "n", "f">>, <<"i", "n", "f", "i", "n", "i", "t", "y">>}
  THEN Ok(IF neg THEN NegInf ELSE PosInf)
  ELSE IF low = <<"n", "a", "n">> THEN Ok(NaN)
  ELSE Scientific(neg, text, IndexOf(low, "e"))

\* str::parse::<f64>: optional sign, then "inf" / "infinity" / "nan" in any
\* case, or digits with an optional '.' (at least one digit in total) and an
\* optional exponent.
ParseF64(s) ==
  IF s = <<>> THEN Err("empty")
  ELSE UnsignedF64(Head(s) = "-", Unsigned(s), LowerStr(Unsigned(s)))

(***************************************************************************)
(* Value (src/src/value.rs) and wire::Value (src/src/wire.rs).             *)
(***************************************************************************)
VNull == [tag |-> "Null"]
VInteger(i) == [tag |-> "Integer", i |-> i]
VFloat(f) == [tag |-> "Float", f |-> f]
VText(s) == [tag |-> "Text", s |-> s]
VBlobBase64(b) == [tag |-> "BlobBase64", b |-> b]

WNull == [type |-> "null"]
WInteger(value) == [type |-> "integer", value |-> value]
WFloat(value) == [type |-> "float", value |-> value]
WText(value) == [type |-> "text", value |-> value]
WBlob(base64) == [type |-> "blob", base64 |-> base64]

\* encode_value that sends an integer in a float payload.
encode_value_integer_as_float(value) ==
  CASE value.tag = "Null" -> Ok(WNull)
    [] value.tag = "Integer" -> Ok(WFloat(IntToStr(value.i)))
    [] value.tag = "Float" ->
         IF ~is_finite(value.f)
         THEN Err(Decode("non-finite float value is unsupported", -1, FloatToStr(value.f)))
         ELSE Ok(WFloat(FloatToStr(value.f)))
    [] value.tag = "Text" -> Ok(WText(value.s))
    [] value.tag = "BlobBase64" -> Ok(WBlob(value.b))

\* encode_value that prints a float with one digit less than it has.
encode_value_shortened(value) ==
  CASE value.tag = "Null" -> Ok(WNull)
    [] value.tag = "Integer" -> Ok(WInteger(IntToStr(value.i)))
    [] value.tag = "Float" ->
         IF ~is_finite(value.f)
         THEN Err(Decode("non-finite float value is unsupported", -1, FloatToStr(value.f)))
         ELSE Ok(WFloat(FloatToStr(IF value.f.s > 0
                                   THEN Normalise(value.f.m \div 10, value.f.s - 1)
                                   ELSE value.f)))
    [] value.tag = "Text" -> Ok(WText(value.s))
    [] value.tag = "BlobBase64" -> Ok(WBlob(value.b))

\* encode_value without the finiteness test.
encode_value_unchecked(value) ==
  CASE value.tag = "Null" -> Ok(WNull)
    [] value.tag = "Integer" -> Ok(WInteger(IntToStr(value.i)))
    [] value.tag = "Float" -> Ok(WFloat(FloatToStr(value.f)))
    [] value.tag = "Text" -> Ok(WText(value.s))
    [] value.tag = "BlobBase64" -> Ok(WBlob(value.b))

\* decode::encode_value
encode_value(value) ==
  CASE value.tag = "Null" -> Ok(WNull)
    [] value.tag = "Integer" -> Ok(WInteger(IntToStr(value.i)))
    [] value.tag = "Float" ->
         IF ~is_finite(value.f)
         THEN Err(Decode("non-finite float value is unsupported", -1, FloatToStr(value.f)))
         ELSE Ok(WFloat(FloatToStr(value.f)))
    [] value.tag = "Text" -> Ok(WText(value.s))
    [] value.tag = "BlobBase64" -> Ok(WBlob(value.b))

\* value.parse::<i64>().map(Value::Integer).map_err(..), lines 99-102
integer_value(parsed, raw) ==
  IF parsed.ok THEN Ok(VInteger(parsed.val))
  ELSE Err(Decode("invalid integer value", -1, raw))

\* decode_value without the finiteness test on a parsed float.
float_value_unchecked(parsed, raw) ==
  IF ~parsed.ok THEN Err(Decode("invalid float value", -1, raw))
  ELSE Ok(VFloat(parsed.val))

\* value.parse::<f64>() and the finiteness test, lines 103-113
float_value(parsed, raw) ==
  IF ~parsed.ok THEN Err(Decode("invalid float value", -1, raw))
  ELSE IF is_finite(parsed.val) THEN Ok(VFloat(parsed.val))
  ELSE Err(Decode("non-finite float value is unsupported", -1, raw))

\* decode::decode_value
decode_value(value) ==
  CASE value.type = "null" -> Ok(VNull)
    [] value.type = "integer" -> integer_value(ParseI64(value.value), value.value)
    [] value.type = "float" -> float_value(ParseF64(value.value), value.value)
    [] value.type = "text" -> Ok(VText(value.value))
    [] value.type = "blob" -> Ok(VBlobBase64(value.base64))

\* str::trim_start_matches([':', '@', '$']): drops every leading character
\* that is one of the three.
RECURSIVE trim_start_matches(_)
trim_start_matches(name) ==
  IF name # <<>> /\ Head(name) \in {":", "@", "$"} THEN trim_start_matches(Tail(name))
  ELSE name

NonEmptyName(normalized) ==
  IF normalized = <<>> THEN Err(Decode("named parameter name cannot be empty", -1, <<>>))
  ELSE Ok(normalized)

\* decode::normalize_named_parameter_name
normalize_named_parameter_name(name) == NonEmptyName(trim_start_matches(name))

(***************************************************************************)
(* Params and Statement (src/src/params.rs).                               *)
(***************************************************************************)
Positional(values) == [tag |-> "Positional", values |-> values]
Named(pairs) == [tag |-> "Named", values |-> pairs]
Statement(sql, params, want_rows) == [sql |-> sql, params |-> params, want_rows |-> want_rows]

\* values.into_iter().map(encode_value).collect(): the encoded values in
\* order, or the first error.
RECURSIVE CollectEncoded(_)
CollectEncoded(values) ==
  IF values = <<>> THEN Ok(<<>>)
  ELSE Collect(encode_value(Head(values)), CollectEncoded(Tail(values)))

\* The closure of lines 28-32: the name is normalised before the value is
\* encoded.
NamedArg(name, value) ==
  IF ~name.ok THEN name
  ELSE IF ~value.ok THEN value
  ELSE Ok([name |-> name.val, value |-> value.val])

RECURSIVE CollectNamed(_)
CollectNamed(pairs) ==
  IF pairs = <<>> THEN Ok(<<>>)
  ELSE Collect(NamedArg(normalize_named_parameter_name(Head(pairs).name),
                        encode_value(Head(pairs).value)),
               CollectNamed(Tail(pairs)))

\* bool::then_some
then_some(b, v) == IF b THEN Some(v) ELSE None

\* build_execute_statement that always sends the args list, also when empty.
positional_statement_always(sql, args, want_rows) ==
  IF ~args.ok THEN args
  ELSE Ok([sql |-> sql,
           args |-> Some(args.val),
           named_args |-> None,
           want_rows |-> want_rows])

\* build_execute_statement, lines 13-23
positional_statement(sql, args, want_rows) ==
  IF ~args.ok THEN args
  ELSE Ok([sql |-> sql,
           args |-> then_some(args.val # <<>>, args.val),
           named_args |-> None,
           want_rows |-> want_rows])

\* build_execute_statement, lines 26-40
named_statement(sql, named_args, want_rows) ==
  IF ~named_args.ok THEN named_args
  ELSE Ok([sql |-> sql,
           args |-> None,
           named_args |-> then_some(named_args.val # <<>>, named_args.val),
           want_rows |-> want_rows])

\* decode::build_execute_statement
build_execute_statement(sql, params, want_rows) ==
  IF params.tag = "Positional"
  THEN positional_statement(sql, CollectEncoded(params.values), want_rows)
  ELSE named_statement(sql, CollectNamed(params.values), want_rows)

(***************************************************************************)
(* Decoding of a wire::ExecuteResult (src/src/decode.rs).                  *)
(***************************************************************************)
RECURSIVE CollectRow(_)
CollectRow(row) ==
  IF row = <<>> THEN Ok(<<>>)
  ELSE Collect(decode_value(Head(row)), CollectRow(Tail(row)))

RECURSIVE CollectRows(_)
CollectRows(rows) ==
  IF rows = <<>> THEN Ok(<<>>)
  ELSE Collect(CollectRow(Head(rows)), CollectRows(Tail(rows)))

\* decode_query_result, lines 48-75: the columns, and the rows once decoded
QueryResult(result, rows) ==
  IF ~rows.ok THEN rows
  ELSE Ok([cols |-> [i \in 1..Len(result.cols) |->
                       [name |-> result.cols[i].name, decltype |-> result.cols[i].decltype]],
           rows |-> rows.val,
           replication_index |-> result.replication_index,
           rows_read |-> result.rows_read,
           rows_written |-> result.rows_written,
           query_duration_ms |-> result.query_duration_ms])

\* decode_exec_result that drops a last_insert_rowid it cannot parse.
rowid_value_lenient(parsed, raw) ==
  IF parsed.ok THEN Ok(Some(parsed.val)) ELSE Ok(None)

\* value.parse::<i64>().map_err(..), lines 81-83
rowid_value(parsed, raw) ==
  IF parsed.ok THEN Ok(Some(parsed.val))
  ELSE Err(Decode("invalid last_insert_rowid", -1, raw))

\* Option::map(..).transpose(), lines 78-85
parse_last_insert_rowid(value) ==
  IF value.some THEN rowid_value(ParseI64(value.v), value.v) ELSE Ok(None)

\* decode_query_result that parses last_insert_rowid as decode_exec_result
\* does.
decode_query_result_parsing_rowid(result) ==
  IF ~parse_last_insert_rowid(result.last_insert_rowid).ok
  THEN parse_last_insert_rowid(result.last_insert_rowid)
  ELSE QueryResult(result, CollectRows(result.rows))

\* decode::decode_query_result
decode_query_result(result) == QueryResult(result, CollectRows(result.rows))

\* decode_exec_result, lines 87-93
ExecResult(result, last_insert_rowid) ==
  IF ~last_insert_rowid.ok THEN last_insert_rowid
  ELSE Ok([affected_row_count |-> result.affected_row_count,
           last_insert_rowid |-> last_insert_rowid.val,
           replication_index |-> result.replication_index,
           rows_read |-> result.rows_read,
           rows_written |-> result.rows_written])

\* decode::decode_exec_result
decode_exec_result(result) ==
  ExecResult(result, parse_last_insert_rowid(result.last_insert_rowid))

(***************************************************************************)
(* Wire requests (src/src/wire.rs) and their JSON form.                    *)
(***************************************************************************)
RequestExecute(stmt) == [type |-> "execute", stmt |-> stmt]
RequestClose == [type |-> "close"]
PipelineRequest(requests) == [requests |-> requests]

\* #[derive(Serialize)] of ExecuteStatement: args and named_args are left out
\* of the object when they are None (skip_serializing_if).
json_stmt(stmt) ==
  CASE stmt.args.some /\ stmt.named_args.some ->
         [sql |-> stmt.sql, args |-> stmt.args.v, named_args |-> stmt.named_args.v,
          want_rows |-> stmt.want_rows]
    [] stmt.args.some /\ ~stmt.named_args.some ->
         [sql |-> stmt.sql, args |-> stmt.args.v, want_rows |-> stmt.want_rows]
    [] ~stmt.args.some /\ stmt.named_args.some ->
         [sql |-> stmt.sql, named_args |-> stmt.named_args.v, want_rows |-> stmt.want_rows]
    [] OTHER -> [sql |-> stmt.sql, want_rows |-> stmt.want_rows]

\* RequestBuilder::json(payload): the body of the POST.
json(payload) ==
  [requests |-> [i \in 1..Len(payload.requests) |->
                   IF payload.requests[i].type = "execute"
                   THEN [type |-> "execute", stmt |-> json_stmt(payload.requests[i].stmt)]
                   ELSE [type |-> "close"]]]

(***************************************************************************)
(* Classification of one wire::PipelineResult (src/src/client.rs).         *)
(***************************************************************************)
\* into_execute_result that takes a missing result payload for an empty
\* ExecuteResult.
into_execute_result_defaulting(result, request_index) ==
  CASE result.kind = "ok" ->
         IF ~result.response.some
         THEN Err(Decode("missing response payload for request", request_index, <<>>))
         ELSE IF result.response.v.kind # "execute"
         THEN Err(Decode("expected execute response at request", request_index,
                         <<result.response.v.kind>>))
         ELSE IF ~result.response.v.result.some
         THEN Ok([cols |-> <<>>, rows |-> <<>>, affected_row_count |-> 0,
                  last_insert_rowid |-> None, replication_index |-> None,
                  rows_read |-> None, rows_written |-> None, query_duration_ms |-> None])
         ELSE Ok(result.response.v.result.v)
    [] result.kind = "error" ->
         IF ~result.error.some
         THEN Err(Decode("missing error payload for request", request_index, <<>>))
         ELSE Err(Pipeline(request_index, result.error.v.message, result.error.v.code))
    [] OTHER ->
         Err(Decode("unknown pipeline result type", request_index, <<result.kind>>))

\* BunnyDbClient::into_execute_result
into_execute_result(result, request_index) ==
  CASE result.kind = "ok" ->
         IF ~result.response.some
         THEN Err(Decode("missing response payload for request", request_index, <<>>))
         ELSE IF result.response.v.kind # "execute"
         THEN Err(Decode("expected execute response at request", request_index,
                         <<result.response.v.kind>>))
         ELSE IF ~result.response.v.result.some
         THEN Err(Decode("missing execute result payload at request", request_index, <<>>))
         ELSE Ok(result.response.v.result.v)
    [] result.kind = "error" ->
         IF ~result.error.some
         THEN Err(Decode("missing error payload for request", request_index, <<>>))
         ELSE Err(Pipeline(request_index, result.error.v.message, result.error.v.code))
    [] OTHER ->
         Err(Decode("unknown pipeline result type", request_index, <<result.kind>>))

\* ensure_close_success that accepts every "ok" result, whatever its
\* response.
ensure_close_success_any_ok(result, request_index) ==
  CASE result.kind = "ok" -> Ok(<<>>)
    [] result.kind = "error" ->
         IF ~result.error.some
         THEN Err(Decode("missing error payload for close request", request_index, <<>>))
         ELSE Err(Pipeline(request_index, result.error.v.message, result.error.v.code))
    [] OTHER ->
         Err(Decode("unknown pipeline result type", request_index, <<result.kind>>))

\* BunnyDbClient::ensure_close_success
ensure_close_success(result, request_index) ==
  CASE result.kind = "ok" ->
         IF ~result.response.some
         THEN Err(Decode("missing close response payload for request", request_index, <<>>))
         ELSE IF result.response.v.kind # "close"
         THEN Err(Decode("expected close response at request", request_index,
                         <<result.response.v.kind>>))
         ELSE Ok(<<>>)
    [] result.kind = "error" ->
         IF ~result.error.some
         THEN Err(Decode("missing error payload for close request", request_index, <<>>))
         ELSE Err(Pipeline(request_index, result.error.v.message, result.error.v.code))
    [] OTHER ->
         Err(Decode("unknown pipeline result type", request_index, <<result.kind>>))

(***************************************************************************)
(* StatementOutcome (src/src/types.rs).                                    *)
(***************************************************************************)
OutcomeQuery(q) == [tag |-> "Query", q |-> q]
OutcomeExec(e) == [tag |-> "Exec", e |-> e]
OutcomeSqlError(request_index, message, code) ==
  [tag |-> "SqlError", request_index |-> request_index, message |-> message, code |-> code]

\* Ok(StatementOutcome::Query(decode_query_result(..)?))
query_outcome(decoded) == IF ~decoded.ok THEN decoded ELSE Ok(OutcomeQuery(decoded.val))

\* Ok(StatementOutcome::Exec(decode_exec_result(..)?))
exec_outcome(decoded) == IF ~decoded.ok THEN decoded ELSE Ok(OutcomeExec(decoded.val))

\* The "ok" arm of decode_statement_outcome, lines 320-327
decode_ok_outcome(execute_result, want_rows) ==
  IF ~execute_result.ok THEN execute_result
  ELSE IF want_rows THEN query_outcome(decode_query_result(execute_result.val))
  ELSE exec_outcome(decode_exec_result(execute_result.val))

\* decode_statement_outcome with an "error" result handled as in
\* into_execute_result: the SQL error fails the call.
decode_statement_outcome_escalating(result, request_index, want_rows) ==
  decode_ok_outcome(into_execute_result(result, request_index), want_rows)

\* decode_statement_outcome with the want_rows test inverted.
decode_statement_outcome_inverted(result, request_index, want_rows) ==
  CASE result.kind = "ok" ->
         decode_ok_outcome(into_execute_result(result, request_index), ~want_rows)
    [] result.kind = "error" ->
         IF ~result.error.some
         THEN Err(Decode("missing error payload for request", request_index, <<>>))
         ELSE Ok(OutcomeSqlError(request_index, result.error.v.message, result.error.v.code))
    [] OTHER ->
         Err(Decode("unknown pipeline result type", request_index, <<result.kind>>))

\* decode_statement_outcome that takes an "error" result without a code for
\* invalid.
decode_statement_outcome_requiring_code(result, request_index, want_rows) ==
  CASE result.kind = "ok" ->
         decode_ok_outcome(into_execute_result(result, request_index), want_rows)
    [] result.kind = "error" ->
         IF ~result.error.some
         THEN Err(Decode("missing error payload for request", request_index, <<>>))
         ELSE IF ~result.error.v.code.some
         THEN Err(Decode("missing error code for request", request_index, <<>>))
         ELSE Ok(OutcomeSqlError(request_index, result.error.v.message, result.error.v.code))
    [] OTHER ->
         Err(Decode("unknown pipeline result type", request_index, <<result.kind>>))

\* BunnyDbClient::decode_statement_outcome
decode_statement_outcome(result, request_index, want_rows) ==
  CASE result.kind = "ok" ->
         decode_ok_outcome(into_execute_result(result, request_index), want_rows)
    [] result.kind = "error" ->
         IF ~result.error.some
         THEN Err(Decode("missing error payload for request", request_index, <<>>))
         ELSE Ok(OutcomeSqlError(request_index, result.error.v.message, result.error.v.code))
    [] OTHER ->
         Err(Decode("unknown pipeline result type", request_index, <<result.kind>>))

(***************************************************************************)
(* The part of batch, run_single, query and execute that follows the       *)
(* response (src/src/client.rs).                                           *)
(***************************************************************************)
\* The loop of batch over wants_rows (lines 211-216): the outcomes of the
\* statements from `index` on, or the first error.
RECURSIVE batch_outcomes(_, _, _)
batch_outcomes(results, wants_rows, index) ==
  IF index >= Len(wants_rows) THEN Ok(<<>>)
  ELSE IF index + 1 > Len(results)
  THEN Err(Decode("missing execute result at index", index, <<>>))
  ELSE Collect(decode_statement_outcome(results[index + 1], index, wants_rows[index + 1]),
               batch_outcomes(results, wants_rows, index + 1))

\* first?; second
and_then(first, second) == IF ~first.ok THEN first ELSE second

\* batch, lines 218-224: the close result is examined after the outcomes
batch_close(results, outcomes) ==
  IF ~outcomes.ok THEN outcomes
  ELSE and_then(ensure_close_success(results[Len(outcomes.val) + 1], Len(outcomes.val)),
                outcomes)

\* batch with the count check weakened to "too few": extra results are
\* ignored.
batch_response_truncating(wants_rows, results) ==
  IF Len(results) < Len(wants_rows) + 1
  THEN Err(Decode("result count mismatch", Len(wants_rows) + 1, NatToStr(Len(results))))
  ELSE batch_close(results, batch_outcomes(results, wants_rows, 0))

\* BunnyDbClient::batch, lines 200-224
batch_response(wants_rows, results) ==
  IF Len(results) # Len(wants_rows) + 1
  THEN Err(Decode("result count mismatch", Len(wants_rows) + 1, NatToStr(Len(results))))
  ELSE batch_close(results, batch_outcomes(results, wants_rows, 0))

\* run_single, lines 254-256: the execute result, then the close result
single_result(execute_result, close) ==
  and_then(execute_result, and_then(close, execute_result))

\* run_single that examines result 0 before it counts the results.
run_single_response_count_last(results) ==
  IF results # <<>> /\ ~into_execute_result(results[1], 0).ok
  THEN into_execute_result(results[1], 0)
  ELSE IF Len(results) # 2
  THEN Err(Decode("result count mismatch", 2, NatToStr(Len(results))))
  ELSE single_result(into_execute_result(results[1], 0), ensure_close_success(results[2], 1))

\* run_single with the close result examined before the execute result.
run_single_response_close_first(results) ==
  IF Len(results) # 2
  THEN Err(Decode("result count mismatch", 2, NatToStr(Len(results))))
  ELSE and_then(ensure_close_success(results[2], 1), into_execute_result(results[1], 0))

\* BunnyDbClient::run_single, lines 239-256
run_single_response(results) ==
  IF Len(results) # 2
  THEN Err(Decode("result count mismatch", 2, NatToStr(Len(results))))
  ELSE single_result(into_execute_result(results[1], 0), ensure_close_success(results[2], 1))

\* decode_query_result(result), line 168
decoded_query(result) == IF ~result.ok THEN result ELSE decode_query_result(result.val)

\* decode_exec_result(result), line 174
decoded_exec(result) == IF ~result.ok THEN result ELSE decode_exec_result(result.val)

\* BunnyDbClient::query, after run_single
query_response(results) == decoded_query(run_single_response(results))

\* BunnyDbClient::execute, after run_single
execute_response(results) == decoded_exec(run_single_response(results))

(***************************************************************************)
(* Retry policy (src/src/client.rs) and options (src/src/options.rs).      *)
(***************************************************************************)
is_success(status) == status >= 200 /\ status <= 299

\* should_retry_status that takes every 5xx status for retryable.
should_retry_status_any_5xx(status) == status = 429 \/ status >= 500

\* BunnyDbClient::should_retry_status
should_retry_status(status) == status \in {429, 500, 502, 503, 504}

\* BunnyDbClient::should_retry_transport (native target)
should_retry_transport(err) ==
  err.is_timeout \/ err.is_request \/ err.is_body \/ err.is_connect

U64_MAX == 1048575

\* u64::wrapping_mul in the place of saturating_mul.
wrapping_mul(a, b) ==
  (((a * (b % 1024)) % (U64_MAX + 1)) + (((a * (b \div 1024)) % (U64_MAX + 1)) * 1024))
    % (U64_MAX + 1)

\* u64::saturating_mul
saturating_mul(a, b) == IF b # 0 /\ a > U64_MAX \div b THEN U64_MAX ELSE a * b

\* usize::min
min(a, b) == IF a < b THEN a ELSE b

\* BunnyDbClient::wait_before_retry: the delay slept, in milliseconds (u64
\* scaled to 20 bits).
wait_before_retry(retry_backoff_ms, attempt) ==
  saturating_mul(retry_backoff_ms, 2 ^ min(attempt, 16))

(***************************************************************************)
(* Inputs: what the caller passes and what the transport and the server    *)
(* answer.                                                                 *)
(***************************************************************************)
SeqsUpTo(S, n) == UNION {[1..k -> S] : k \in 0..n}

Sqls == {"SELECT"}

ParamChoices ==
  { Positional(<<VInteger(7)>>),
    Positional(<<VFloat(NaN)>>),
    Positional(<<VInteger(7), VFloat(PosInf)>>),
    Named(<<[name |-> <<"a">>, value |-> VInteger(7)],
            [name |-> <<"b">>, value |-> VFloat(NegInf)]>>) }

StatementChoices ==
  {Statement(sql, params, want_rows) : sql \in Sqls, params \in ParamChoices, want_rows \in BOOLEAN}

\* reqwest::Error, as the four classifications the client asks it for.
ReqwestError(name, is_timeout, is_request, is_body, is_connect) ==
  [name |-> name, is_timeout |-> is_timeout, is_request |-> is_request,
   is_body |-> is_body, is_connect |-> is_connect]

\* Failures of RequestBuilder::send.
SendErrors ==
  { ReqwestError("timeout", TRUE, FALSE, FALSE, FALSE),
    ReqwestError("connect", FALSE, FALSE, FALSE, TRUE),
    ReqwestError("request", FALSE, TRUE, FALSE, FALSE),
    ReqwestError("body", FALSE, FALSE, TRUE, FALSE),
    ReqwestError("redirect", FALSE, FALSE, FALSE, FALSE) }

\* Failures of Response::text, after the status line was received.
BodyErrors ==
  { ReqwestError("timeout", TRUE, FALSE, FALSE, FALSE),
    ReqwestError("body", FALSE, FALSE, TRUE, FALSE),
    ReqwestError("decode", FALSE, FALSE, FALSE, FALSE) }

Statuses == {200, 304, 400, 429, 500, 501, 502, 503, 504}

\* wire::ExecuteResult as the server may send it.
ExecuteResult(cols, rows, affected_row_count, last_insert_rowid) ==
  [cols |-> cols, rows |-> rows, affected_row_count |-> affected_row_count,
   last_insert_rowid |-> last_insert_rowid, replication_index |-> None,
   rows_read |-> None, rows_written |-> None, query_duration_ms |-> None]

ER_good ==
  ExecuteResult(<<[name |-> "id", decltype |-> Some("INTEGER")]>>,
                << <<WInteger(<<"1">>)>> >>, 1, Some(<<"4", "2">>))
ER_bad_row ==
  ExecuteResult(<<[name |-> "id", decltype |-> None]>>,
                << <<WInteger(<<"x">>)>> >>, 0, None)
ER_bad_rowid ==
  ExecuteResult(<<>>, <<>>, 1, Some(<<"x">>))

\* wire::PipelineResult
PipelineResult(kind, response, error) == [kind |-> kind, response |-> response, error |-> error]
ResponseEnvelope(kind, result) == [kind |-> kind, result |-> result]
PipelineError(message, code) == [message |-> message, code |-> code]

ResultChoices ==
  { PipelineResult("ok", Some(ResponseEnvelope("execute", Some(ER_good))), None),
    PipelineResult("ok", Some(ResponseEnvelope("execute", Some(ER_bad_row))), None),
    PipelineResult("ok", Some(ResponseEnvelope("execute", Some(ER_bad_rowid))), None),
    PipelineResult("ok", Some(ResponseEnvelope("execute", None)), None),
    PipelineResult("ok", Some(ResponseEnvelope("close", None)), None),
    PipelineResult("ok", None, None),
    PipelineResult("error", None, Some(PipelineError("no such table", Some("SQLITE_ERROR")))),
    PipelineResult("error", None, Some(PipelineError("syntax error", None))),
    PipelineResult("error", None, None),
    PipelineResult("unknown", None, None) }

\* A response body: its text and, when the text is JSON of the
\* wire::PipelineResponse shape, the results it holds.
Body(text, parsed) == [text |-> text, parsed |-> parsed]

OkBodies ==
  {Body(<<"<html>">>, None)}
    \cup [text : {<<"json">>}, parsed : [some : {TRUE}, v : SeqsUpTo(ResultChoices, MaxResults)]]

ErrorBodies == {Body(<<"boom">>, None)}

\* serde_json::from_str::<wire::PipelineResponse>(&body), lines 295-299
parse_response(body) ==
  IF body.parsed.some THEN Ok([results |-> body.parsed.v])
  ELSE Err(Decode("invalid pipeline response JSON", -1, body.text))

(***************************************************************************)
(* State.                                                                  *)
(***************************************************************************)
VARIABLES
  options,     \* ClientOptions of the client
  pc,          \* position of the call: idle, send, inflight, body, wait, done
  op,          \* the operation called: query, execute or batch
  statements,  \* the statements the caller passed
  payload,     \* the PipelineRequest built for the call
  attempt,     \* the attempt counter of send_pipeline_with_retry
  sent,        \* the request bodies sent so far, in order
  timers,      \* the timeout set on each request sent, in milliseconds
  status,      \* status of the response whose body is being read
  body,        \* the last response body read
  waits,       \* the delays slept so far, in order
  failed,      \* number of attempts that ended in a failure
  last,        \* how the latest attempt ended
  result,      \* what the call returned
  codec,       \* the latest call of a function of decode.rs: name, input, output
  endpoint,    \* pipeline_url and token of the client
  calls        \* the locals of each of the calls made concurrently on the client

vars == <<options, pc, op, statements, payload, attempt, sent, timers, status, body,
          waits, failed, last, result, codec, endpoint, calls>>

NoBody == Body(<<>>, None)
NoResult == Err([tag |-> "None"])
NoError == ReqwestError("none", FALSE, FALSE, FALSE, FALSE)
Attempt(kind, st, err) == [kind |-> kind, status |-> st, err |-> err]
Applied(fn, input, output) == [fn |-> fn, input |-> input, output |-> output]

\* The concurrent calls: two futures on one client or on its clones.
CallIds == {1, 2}

\* The locals of a call that has not started.
IdleCall ==
  [pc |-> "idle", op |-> "none", statements |-> <<>>, payload |-> PipelineRequest(<<>>),
   attempt |-> 0, sent |-> <<>>, status |-> 0, body |-> NoBody, waits |-> <<>>,
   last |-> Attempt("none", 0, NoError), result |-> NoResult]

\* ClientOptions::default with the retry count chosen by with_options
Init ==
  /\ options \in {[timeout_ms |-> 10000, max_retries |-> r, retry_backoff_ms |-> 250] :
                    r \in 0..MaxRetries}
  /\ pc = "idle"
  /\ op = "none"
  /\ statements = <<>>
  /\ payload = PipelineRequest(<<>>)
  /\ attempt = 0
  /\ sent = <<>>
  /\ timers = <<>>
  /\ status = 0
  /\ body = NoBody
  /\ waits = <<>>
  /\ failed = 0
  /\ last = Attempt("none", 0, NoError)
  /\ result = NoResult
  /\ codec = Applied("none", <<>>, NoResult)
  /\ endpoint = [pipeline_url |-> "https://db/v2/pipeline", token |-> "Bearer t"]
  /\ calls = [c \in CallIds |-> IdleCall]

(***************************************************************************)
(* Operations.  An action is the code between two suspension points of the *)
(* call (.send().await, .text().await, sleep().await).                     *)
(***************************************************************************)
\* Entry into send_pipeline_with_retry, line 263
StartSending(request) ==
  /\ payload' = request
  /\ attempt' = 0
  /\ pc' = "send"
  /\ result' = NoResult

\* A call that returns before any request is sent
ReturnEarly(r) ==
  /\ pc' = "done"
  /\ result' = r
  /\ UNCHANGED <<payload, attempt>>

\* The call goes on to send the requests, or returns the build error.
SendOrReturn(requests) ==
  IF ~requests.ok THEN ReturnEarly(requests)
  ELSE StartSending(PipelineRequest(requests.val))

\* run_single, lines 233-237: the Execute request of the statement and Close
single_requests(execute_stmt) ==
  IF ~execute_stmt.ok THEN execute_stmt
  ELSE Ok(<<RequestExecute(execute_stmt.val), RequestClose>>)

\* BunnyDbClient::run_single, lines 233-237
run_single(sql, params, want_rows) ==
  /\ statements' = <<Statement(sql, params, want_rows)>>
  /\ SendOrReturn(single_requests(build_execute_statement(sql, params, want_rows)))
  /\ UNCHANGED <<options, endpoint, calls, codec, timers, sent, status, body, waits, failed, last>>

\* BunnyDbClient::query, line 167
Query ==
  /\ pc = "idle"
  /\ op' = "query"
  /\ \E sql \in Sqls, params \in ParamChoices : run_single(sql, params, TRUE)

\* BunnyDbClient::execute, line 173
Execute ==
  /\ pc = "idle"
  /\ op' = "execute"
  /\ \E sql \in Sqls, params \in ParamChoices : run_single(sql, params, FALSE)

\* requests.push(Execute { stmt }), lines 190-192
execute_request(stmt) == IF ~stmt.ok THEN stmt ELSE Ok(RequestExecute(stmt.val))

\* The loop of batch over the statements (lines 189-194): the Execute
\* requests in order, or the first build error.
RECURSIVE batch_requests(_)
batch_requests(stmts) ==
  IF stmts = <<>> THEN Ok(<<>>)
  ELSE Collect(execute_request(build_execute_statement(Head(stmts).sql, Head(stmts).params,
                                                       Head(stmts).want_rows)),
               batch_requests(Tail(stmts)))

\* batch that pushes Close before the Execute requests.
with_close_first(requests) ==
  IF ~requests.ok THEN requests ELSE Ok(<<RequestClose>> \o requests.val)

\* requests.push(Request::Close), line 196
with_close(requests) ==
  IF ~requests.ok THEN requests ELSE Ok(requests.val \o <<RequestClose>>)

\* batch that returns no outcomes for no statements without a round trip.
Batch_skipping_empty ==
  /\ pc = "idle"
  /\ op' = "batch"
  /\ \E stmts \in SeqsUpTo(StatementChoices, MaxStmts) :
       /\ statements' = stmts
       /\ IF stmts = <<>> THEN ReturnEarly(Ok(<<>>))
          ELSE SendOrReturn(with_close(batch_requests(stmts)))
  /\ UNCHANGED <<options, endpoint, calls, codec, timers, sent, status, body, waits, failed, last>>

\* BunnyDbClient::batch, lines 185-198
Batch ==
  /\ pc = "idle"
  /\ op' = "batch"
  /\ \E stmts \in SeqsUpTo(StatementChoices, MaxStmts) :
       /\ statements' = stmts
       /\ SendOrReturn(with_close(batch_requests(stmts)))
  /\ UNCHANGED <<options, endpoint, calls, codec, timers, sent, status, body, waits, failed, last>>

\* Send that stamps the body with the attempt number.
Send_stamped ==
  /\ pc = "send"
  /\ sent' = Append(sent, [requests |-> json(payload).requests, attempt |-> attempt])
  /\ timers' = Append(timers, options.timeout_ms)
  /\ pc' = "inflight"
  /\ status' = 0
  /\ body' = NoBody
  /\ last' = Attempt("none", 0, NoError)
  /\ UNCHANGED <<options, endpoint, calls, codec, op, statements, payload, attempt, waits, failed, result>>

\* The sum of the delays slept.
RECURSIVE Slept(_)
Slept(delays) == IF delays = <<>> THEN 0 ELSE Head(delays) + Slept(Tail(delays))

\* Send with one deadline for the whole call: a request gets the time that
\* the sleeps have left of timeout_ms.
Send_deadline ==
  /\ pc = "send"
  /\ sent' = Append(sent, json(payload))
  /\ timers' = Append(timers, options.timeout_ms - Slept(waits))
  /\ pc' = "inflight"
  /\ status' = 0
  /\ body' = NoBody
  /\ last' = Attempt("none", 0, NoError)
  /\ UNCHANGED <<options, endpoint, calls, codec, op, statements, payload, attempt, waits, failed, result>>

\* Send that does not wait for the backoff sleep to end.
Send_early ==
  /\ pc \in {"send", "wait"}
  /\ sent' = Append(sent, json(payload))
  /\ timers' = Append(timers, options.timeout_ms)
  /\ pc' = "inflight"
  /\ status' = 0
  /\ body' = NoBody
  /\ last' = Attempt("none", 0, NoError)
  /\ UNCHANGED <<options, endpoint, calls, codec, op, statements, payload, attempt, waits, failed, result>>

\* send_pipeline_with_retry, lines 264-275: the head of the loop, one POST of
\* the payload with its own timeout; status and body are locals of the
\* iteration.
Send ==
  /\ pc = "send"
  /\ sent' = Append(sent, json(payload))
  /\ timers' = Append(timers, options.timeout_ms)
  /\ pc' = "inflight"
  /\ status' = 0
  /\ body' = NoBody
  /\ last' = Attempt("none", 0, NoError)
  /\ UNCHANGED <<options, endpoint, calls, codec, op, statements, payload, attempt, waits, failed, result>>

\* lines 284-286 and 303-305: the backoff sleep is started
StartWait ==
  /\ waits' = Append(waits, wait_before_retry(options.retry_backoff_ms, attempt))
  /\ pc' = "wait"
  /\ UNCHANGED result

\* A return that is preceded by a backoff sleep.
Return_after_wait(r) ==
  /\ pc' = "done"
  /\ result' = r
  /\ waits' = Append(waits, wait_before_retry(options.retry_backoff_ms, attempt))

\* a return from send_pipeline_with_retry or from the caller of it
Return(r) ==
  /\ pc' = "done"
  /\ result' = r
  /\ UNCHANGED waits

\* SendError that retries a retryable failure however many retries were
\* made.
SendError_unbounded ==
  /\ pc = "inflight"
  /\ \E err \in SendErrors :
       /\ last' = Attempt("send_error", 0, err)
       /\ IF should_retry_transport(err)
          THEN StartWait
          ELSE Return(Err(Transport(err)))
  /\ failed' = failed + 1
  /\ UNCHANGED <<options, endpoint, calls, codec, timers, op, statements, payload, attempt, sent, status, body>>

\* send_pipeline_with_retry, lines 301-308: .send() failed
SendError ==
  /\ pc = "inflight"
  /\ \E err \in SendErrors :
       /\ last' = Attempt("send_error", 0, err)
       /\ IF should_retry_transport(err) /\ attempt < options.max_retries
          THEN StartWait
          ELSE Return(Err(Transport(err)))
  /\ failed' = failed + 1
  /\ UNCHANGED <<options, endpoint, calls, codec, timers, op, statements, payload, attempt, sent, status, body>>

\* send_pipeline_with_retry, lines 278-279: .send() returned a response
RecvStatus ==
  /\ pc = "inflight"
  /\ \E st \in Statuses : status' = st
  /\ pc' = "body"
  /\ UNCHANGED <<options, endpoint, calls, codec, timers, op, statements, payload, attempt, sent, body,
                 waits, failed, last, result>>

\* send_pipeline_with_retry, line 280: .text() failed
BodyError ==
  /\ pc = "body"
  /\ \E err \in BodyErrors :
       /\ last' = Attempt("body_error", status, err)
       /\ Return(Err(Transport(err)))
  /\ failed' = failed + 1
  /\ UNCHANGED <<options, endpoint, calls, codec, timers, op, statements, payload, attempt, sent, status, body>>

\* The rest of query (167-168), execute (173-174) or batch (200-224) on the
\* parsed response.
response_result(response) ==
  IF ~response.ok THEN response
  ELSE CASE op = "query" -> query_response(response.val.results)
         [] op = "execute" -> execute_response(response.val.results)
         [] OTHER ->
              batch_response([i \in 1..Len(statements) |-> statements[i].want_rows],
                             response.val.results)

\* What the call returns for a 2xx body: lines 295-299, then the rest of the
\* operation.
on_success_body(b) == response_result(parse_response(b))

\* BodyRead that treats a failure after a 2xx response like a retryable
\* failure.
BodyRead_retrying_decode ==
  /\ pc = "body"
  /\ \E b \in (IF is_success(status) THEN OkBodies ELSE ErrorBodies) :
       /\ body' = b
       /\ last' = Attempt("response", status, NoError)
       /\ IF ~is_success(status)
          THEN /\ failed' = failed + 1
               /\ IF should_retry_status(status) /\ attempt < options.max_retries
                  THEN StartWait
                  ELSE Return(Err(Http(status, b.text)))
          ELSE /\ failed' = failed
               /\ IF ~on_success_body(b).ok /\ attempt < options.max_retries
                  THEN StartWait
                  ELSE Return(on_success_body(b))
  /\ UNCHANGED <<options, endpoint, calls, codec, timers, op, statements, payload, attempt, sent, status>>

\* send_pipeline_with_retry, lines 280-299: .text() returned the body
BodyRead ==
  /\ pc = "body"
  /\ body' \in (IF is_success(status) THEN OkBodies ELSE ErrorBodies)
  /\ last' = Attempt("response", status, NoError)
  /\ IF ~is_success(status)
     THEN /\ failed' = failed + 1
          /\ IF should_retry_status(status) /\ attempt < options.max_retries
             THEN StartWait
             ELSE Return(Err(Http(status, body'.text)))
     ELSE /\ failed' = failed
          /\ Return(on_success_body(body'))
  /\ UNCHANGED <<options, endpoint, calls, codec, timers, op, statements, payload, attempt, sent, status>>

\* WaitElapsed that forgets to count the retry.
WaitElapsed_not_counting ==
  /\ pc = "wait"
  /\ attempt' = attempt
  /\ pc' = "send"
  /\ UNCHANGED <<options, endpoint, calls, codec, timers, op, statements, payload, sent, status, body,
                 waits, failed, last, result>>

\* send_pipeline_with_retry, lines 285-286 and 304-305: the sleep is over
WaitElapsed ==
  /\ pc = "wait"
  /\ attempt' = attempt + 1
  /\ pc' = "send"
  /\ UNCHANGED <<options, endpoint, calls, codec, timers, op, statements, payload, sent, status, body,
                 waits, failed, last, result>>

Next ==
  \/ Query
  \/ Execute
  \/ Batch
  \/ Send
  \/ SendError
  \/ RecvStatus
  \/ BodyError
  \/ BodyRead
  \/ WaitElapsed

Spec == Init /\ [][Next]_vars

\* A call under an executor that polls its future and a transport that
\* ends every attempt: the POST is made, .send() and .text() complete with a
\* response, a failure or the timeout of line 272, and the sleep ends.
Fairness ==
  /\ WF_vars(Send)
  /\ WF_vars(SendError \/ RecvStatus)
  /\ WF_vars(BodyError \/ BodyRead)
  /\ WF_vars(WaitElapsed)

SpecLive == Spec /\ Fairness

(***************************************************************************)
(* The functions of src/src/decode.rs on their own: an action applies one  *)
(* function to an input and records the input and what it returned.        *)
(***************************************************************************)
client == <<options, pc, op, statements, payload, attempt, sent, timers, status, body,
            waits, failed, last, result, endpoint, calls>>

Names == SeqsUpTo({":", "@", "$", "a"}, MaxName)

I64s == I64_MIN..I64_MAX

Floats ==
  {Normalise(m, s) : m \in (-MaxMantissa)..MaxMantissa, s \in (-MaxScale)..MaxScale}
    \cup {NaN, PosInf, NegInf}

Values ==
  {VNull, VText("x"), VBlobBase64("AQI=")}
    \cup {VInteger(i) : i \in I64s}
    \cup {VFloat(f) : f \in Floats}

\* Texts a server may put in an integer or float payload.
NumTexts ==
  SeqsUpTo({"-", "+", "1", "9", ".", "e", "x"}, MaxText)
    \cup { IntToStr(I64_MAX), IntToStr(I64_MIN),
           <<"3", "2", "7", "6", "8">>, <<"-", "3", "2", "7", "6", "9">>,
           <<"i", "n", "f">>, <<"-", "I", "n", "f">>, <<"N", "a", "N">>,
           <<"i", "n", "f", "i", "n", "i", "t", "y">>,
           <<"1", "e", "9", "9", "9">>, <<"1", ".", "5", "e", "-", "2">> }

WireValues ==
  {WNull, WText("x"), WBlob("AQI=")}
    \cup {WInteger(t) : t \in NumTexts}
    \cup {WFloat(t) : t \in NumTexts}

CodecParams ==
  {Positional(values) :
     values \in SeqsUpTo({VNull, VInteger(7), VFloat(NaN), VText("x")}, MaxCells)}
    \cup
  {Named(pairs) :
     pairs \in SeqsUpTo({[name |-> name, value |-> value] :
                           name \in {<<"a">>, <<":", "a">>, <<":">>, <<>>},
                           value \in {VInteger(7), VFloat(NaN)}}, MaxCells)}

ExecInputs ==
  {ExecuteResult(<<>>, <<>>, 1, rowid) : rowid \in {None} \cup {Some(t) : t \in NumTexts}}

QueryInputs ==
  {ExecuteResult(cols, rows, 0, None) :
     cols \in SeqsUpTo({[name |-> "id", decltype |-> Some("INTEGER")],
                        [name |-> "n", decltype |-> None]}, MaxCells),
     rows \in SeqsUpTo(SeqsUpTo({WInteger(<<"1">>), WInteger(<<"x">>)}, MaxCells), MaxCells)}

\* No function was called yet, and no call of the client is under way.
Uncalled == pc = "idle" /\ codec.fn = "none"

Call(fn, input, output) ==
  /\ codec' = Applied(fn, input, output)
  /\ UNCHANGED client

\* decode::encode_value
EncodeValue ==
  /\ Uncalled
  /\ \E value \in Values : Call("encode_value", value, encode_value(value))

\* decode::decode_value
DecodeValue ==
  /\ Uncalled
  /\ \E value \in WireValues : Call("decode_value", value, decode_value(value))

\* decode::decode_value on the wire value encode_value has just made
DecodeEncoded ==
  /\ codec.fn = "encode_value"
  /\ codec.output.ok
  /\ codec' = Applied("decode_value", codec.output.val, decode_value(codec.output.val))
  /\ UNCHANGED client

\* decode::normalize_named_parameter_name
NormalizeName ==
  /\ Uncalled
  /\ \E name \in Names :
       Call("normalize_named_parameter_name", name, normalize_named_parameter_name(name))

\* decode::build_execute_statement
BuildStatement ==
  /\ Uncalled
  /\ \E sql \in Sqls, params \in CodecParams, want_rows \in BOOLEAN :
       Call("build_execute_statement", Statement(sql, params, want_rows),
            build_execute_statement(sql, params, want_rows))

\* decode::decode_exec_result
DecodeExecResult ==
  /\ Uncalled
  /\ \E execute_result \in ExecInputs :
       Call("decode_exec_result", execute_result, decode_exec_result(execute_result))

\* decode::decode_query_result
DecodeQueryResult ==
  /\ Uncalled
  /\ \E execute_result \in QueryInputs :
       Call("decode_query_result", execute_result, decode_query_result(execute_result))

\* Values of ClientOptions::retry_backoff_ms, up to u64::MAX.
Backoffs == {0, 1, 3, 15, 16, 17, 250, 4095, 524287, 524288, U64_MAX}

\* BunnyDbClient::wait_before_retry: the delay slept before the retry that
\* follows the failed attempt
WaitBeforeRetry ==
  /\ Uncalled
  /\ \E retry_backoff_ms \in Backoffs, failed_attempt \in 0..MaxAttempt :
       Call("wait_before_retry",
            [retry_backoff_ms |-> retry_backoff_ms, attempt |-> failed_attempt],
            Ok(wait_before_retry(retry_backoff_ms, failed_attempt)))

NextCodec ==
  \/ WaitBeforeRetry
  \/ EncodeValue
  \/ DecodeValue
  \/ DecodeEncoded
  \/ NormalizeName
  \/ BuildStatement
  \/ DecodeExecResult
  \/ DecodeQueryResult

\* A client with ClientOptions::default, no call made
InitCodec == Init /\ options.max_retries = 0

SpecCodec == InitCodec /\ [][NextCodec]_vars

(***************************************************************************)
(* Two calls made concurrently on one client (src/src/client.rs): the       *)
(* methods take &self, and attempt, payload, status and body are locals of  *)
(* the future of each call.  An action is a step of one call between two    *)
(* suspension points.                                                       *)
(***************************************************************************)
locals == <<pc, op, statements, payload, attempt, sent, timers, status, body, waits,
            failed, last, result, codec>>

ConcurrentStatements ==
  {Statement("SELECT", Positional(<<VInteger(7)>>), TRUE),
   Statement("SELECT", Positional(<<VFloat(NaN)>>), FALSE)}

ConcurrentBatches ==
  {<<Statement("SELECT", Positional(<<VInteger(7)>>), TRUE),
     Statement("SELECT", Positional(<<VInteger(7)>>), FALSE)>>}

ConcurrentSendErrors ==
  { ReqwestError("timeout", TRUE, FALSE, FALSE, FALSE),
    ReqwestError("redirect", FALSE, FALSE, FALSE, FALSE) }

ConcurrentBodyErrors == {ReqwestError("body", FALSE, FALSE, TRUE, FALSE)}

ConcurrentStatuses == {200, 400, 503}

R_good == PipelineResult("ok", Some(ResponseEnvelope("execute", Some(ER_good))), None)
R_error == PipelineResult("error", None, Some(PipelineError("no such table", None)))
R_close == PipelineResult("ok", Some(ResponseEnvelope("close", None)), None)

ConcurrentOkBodies ==
  { Body(<<"<html>">>, None),
    Body(<<"json">>, Some(<<R_good, R_close>>)),
    Body(<<"json">>, Some(<<R_error, R_close>>)),
    Body(<<"json">>, Some(<<R_good, R_error, R_close>>)) }

\* The POST of lines 267-274: url, Authorization header and JSON body
Post(request) ==
  [pipeline_url |-> endpoint.pipeline_url, authorization |-> endpoint.token,
   json |-> json(request)]

\* The call returns before any request is sent, or enters
\* send_pipeline_with_retry (line 263).
call_started(call, o, stmts, requests) ==
  IF ~requests.ok
  THEN [call EXCEPT !.pc = "done", !.op = o, !.statements = stmts, !.result = requests]
  ELSE [call EXCEPT !.pc = "send", !.op = o, !.statements = stmts,
                    !.payload = PipelineRequest(requests.val), !.attempt = 0]

\* A step of call c alone
Step(c, call) ==
  /\ calls' = [calls EXCEPT ![c] = call]
  /\ UNCHANGED <<options, endpoint, locals>>

\* BunnyDbClient::query, lines 167 and 233-237, on call c
CallQuery ==
  \E c \in CallIds :
    /\ calls[c].pc = "idle"
    /\ \E s \in ConcurrentStatements :
         Step(c, call_started(calls[c], "query", <<Statement(s.sql, s.params, TRUE)>>,
                              single_requests(build_execute_statement(s.sql, s.params, TRUE))))

\* BunnyDbClient::execute, lines 173 and 233-237, on call c
CallExecute ==
  \E c \in CallIds :
    /\ calls[c].pc = "idle"
    /\ \E s \in ConcurrentStatements :
         Step(c, call_started(calls[c], "execute", <<Statement(s.sql, s.params, FALSE)>>,
                              single_requests(build_execute_statement(s.sql, s.params, FALSE))))

\* BunnyDbClient::batch, lines 185-198, on call c
CallBatch ==
  \E c \in CallIds :
    /\ calls[c].pc = "idle"
    /\ \E stmts \in ConcurrentBatches :
         Step(c, call_started(calls[c], "batch", stmts, with_close(batch_requests(stmts))))

\* lines 264-275 on call c: one POST of the call's payload
CallSend ==
  \E c \in CallIds :
    /\ calls[c].pc = "send"
    /\ Step(c, [calls[c] EXCEPT !.pc = "inflight",
                                !.sent = Append(@, Post(calls[c].payload)),
                                !.status = 0, !.body = NoBody,
                                !.last = Attempt("none", 0, NoError)])

\* The retry test with a counter that all calls of the client share.
may_retry_shared(call) == calls[1].attempt + calls[2].attempt < options.max_retries

\* attempt < self.options.max_retries, lines 283 and 302: attempt is the
\* local of the call
may_retry(call) == call.attempt < options.max_retries

\* lines 284-286 and 303-305 on a call: the backoff sleep is started
call_waiting(call) ==
  [call EXCEPT !.pc = "wait",
               !.waits = Append(@, wait_before_retry(options.retry_backoff_ms, call.attempt))]

\* a return of the call
call_returned(call, r) == [call EXCEPT !.pc = "done", !.result = r]

\* lines 301-308 on a call whose .send() failed with err
call_send_failed(call, err) ==
  IF should_retry_transport(err) /\ may_retry(call)
  THEN call_waiting(call)
  ELSE call_returned(call, Err(Transport(err)))

CallSendError ==
  \E c \in CallIds :
    /\ calls[c].pc = "inflight"
    /\ \E err \in ConcurrentSendErrors :
         Step(c, call_send_failed([calls[c] EXCEPT !.last = Attempt("send_error", 0, err)], err))

\* lines 278-279 on call c: .send() returned a response
CallRecvStatus ==
  \E c \in CallIds :
    /\ calls[c].pc = "inflight"
    /\ \E st \in ConcurrentStatuses :
         Step(c, [calls[c] EXCEPT !.pc = "body", !.status = st])

\* line 280 on call c: .text() failed
CallBodyError ==
  \E c \in CallIds :
    /\ calls[c].pc = "body"
    /\ \E err \in ConcurrentBodyErrors :
         Step(c, call_returned([calls[c] EXCEPT !.last = Attempt("body_error", calls[c].status, err)],
                               Err(Transport(err))))

\* The rest of query, execute or batch of a call on the parsed response.
call_response_result(call, response) ==
  IF ~response.ok THEN response
  ELSE CASE call.op = "query" -> query_response(response.val.results)
         [] call.op = "execute" -> execute_response(response.val.results)
         [] OTHER ->
              batch_response([i \in 1..Len(call.statements) |-> call.statements[i].want_rows],
                             response.val.results)

\* lines 282-299 on a call that has read the body b
call_body_read(call, b) ==
  IF ~is_success(call.status)
  THEN IF should_retry_status(call.status) /\ may_retry(call)
       THEN call_waiting(call)
       ELSE call_returned(call, Err(Http(call.status, b.text)))
  ELSE call_returned(call, call_response_result(call, parse_response(b)))

CallBodyRead ==
  \E c \in CallIds :
    /\ calls[c].pc = "body"
    /\ \E b \in (IF is_success(calls[c].status) THEN ConcurrentOkBodies ELSE ErrorBodies) :
         Step(c, call_body_read([calls[c] EXCEPT !.body = b,
                                                 !.last = Attempt("response", calls[c].status, NoError)],
                                b))

\* lines 285-286 and 304-305 on call c: the sleep is over
CallWaitElapsed ==
  \E c \in CallIds :
    /\ calls[c].pc = "wait"
    /\ Step(c, [calls[c] EXCEPT !.pc = "send", !.attempt = @ + 1])

NextConcurrent ==
  \/ CallQuery
  \/ CallExecute
  \/ CallBatch
  \/ CallSend
  \/ CallSendError
  \/ CallRecvStatus
  \/ CallBodyError
  \/ CallBodyRead
  \/ CallWaitElapsed

SpecConcurrent == Init /\ [][NextConcurrent]_vars

(***************************************************************************)
(* Vocabulary of the properties.                                           *)
(***************************************************************************)
N == Len(statements)
Done == pc = "done"
Encoded == payload.requests # <<>>
Got2xx == last.kind = "response" /\ is_success(last.status)
GotResponse == Got2xx /\ body.parsed.some
Results == body.parsed.v
RetriesMade == Len(sent) - 1
RetryableStatuses == {429, 500, 502, 503, 504}

IsErrorWithPayload(r) == r.kind = "error" /\ r.error.some
IsOkExecute(r) ==
  r.kind = "ok" /\ r.response.some /\ r.response.v.kind = "execute" /\ r.response.v.result.some
IsOkClose(r) == r.kind = "ok" /\ r.response.some /\ r.response.v.kind = "close"

\* The fields read for want_rows hold decodable text.
Decodable(er, want_rows) ==
  IF want_rows
  THEN \A i \in 1..Len(er.rows) : \A j \in 1..Len(er.rows[i]) : decode_value(er.rows[i][j]).ok
  ELSE er.last_insert_rowid.some => ParseI64(er.last_insert_rowid.v).ok

WellFormedOkExecute(r, want_rows) ==
  IsOkExecute(r) /\ Decodable(r.response.v.result.v, want_rows)

\* Result i of a batch is one from which an outcome is made.
Accepted(r, want_rows) == WellFormedOkExecute(r, want_rows) \/ IsErrorWithPayload(r)

IsErr(tag) == ~result.ok /\ result.err.tag = tag

\* C1: a batch whose response has N+1 results, an ok close and, for each
\* statement, a well-formed ok execute result or an error result with a
\* payload, returns Ok with N outcomes, however many of the results are
\* errors.
C1_BatchSqlErrorsNeverFail ==
  (/\ Done
   /\ op = "batch"
   /\ GotResponse
   /\ Len(Results) = N + 1
   /\ IsOkClose(Results[N + 1])
   /\ \A i \in 1..N : Accepted(Results[i], statements[i].want_rows))
  => (result.ok /\ Len(result.val) = N)

C1_Witness ==
  /\ Done /\ op = "batch" /\ GotResponse
  /\ N = 2 /\ Len(Results) = 3
  /\ IsErrorWithPayload(Results[1]) /\ IsErrorWithPayload(Results[2])
  /\ IsOkClose(Results[3])
  /\ result.ok

\* C2: on a successful batch the outcomes are N, in input order, and outcome
\* i comes from result i and statement i alone: SqlError with index i and the
\* message and code of result i for an error result, Query of the decoded
\* result for an ok result of a want_rows statement, Exec otherwise.
C2_OutcomePerStatement ==
  (Done /\ op = "batch" /\ result.ok)
  => /\ Len(result.val) = N
     /\ \A i \in 1..N :
          LET r == Results[i]
              o == result.val[i]
          IN /\ r.kind = "error" =>
                  o = OutcomeSqlError(i - 1, r.error.v.message, r.error.v.code)
             /\ (r.kind = "ok" /\ statements[i].want_rows) =>
                  /\ o.tag = "Query"
                  /\ o = OutcomeQuery(decode_query_result(r.response.v.result.v).val)
             /\ (r.kind = "ok" /\ ~statements[i].want_rows) =>
                  /\ o.tag = "Exec"
                  /\ o = OutcomeExec(decode_exec_result(r.response.v.result.v).val)
             /\ r.kind \in {"ok", "error"}

C2_Witness ==
  /\ Done /\ op = "batch" /\ result.ok /\ N = 2
  /\ statements[1].want_rows /\ ~statements[2].want_rows
  /\ Results[1].kind = "error" /\ Results[2].kind = "ok"
  /\ result.val[2].tag = "Exec"

\* C3: a 2xx response whose results array does not have N+1 elements makes
\* query, execute and batch fail with a Decode error, with extra results as
\* with missing ones.
C3_CountMismatchIsDecode ==
  (Done /\ GotResponse /\ Len(Results) # N + 1)
  => (IsErr("Decode") /\ result.err.what = "result count mismatch")

C3_Witness ==
  /\ Done /\ op = "batch" /\ GotResponse
  /\ N = 1 /\ Len(Results) = 3
  /\ WellFormedOkExecute(Results[1], statements[1].want_rows)
  /\ IsOkClose(Results[2])
  /\ IsErr("Decode")

\* C4: in query and execute, a 2-result response whose result 0 is an error
\* result with a payload fails the call with Pipeline{request_index: 0} and
\* the message and code of that result.
C4_SingleErrorIsPipeline ==
  (/\ Done
   /\ op \in {"query", "execute"}
   /\ GotResponse
   /\ Len(Results) = 2
   /\ IsErrorWithPayload(Results[1]))
  => result = Err(Pipeline(0, Results[1].error.v.message, Results[1].error.v.code))

C4_Witness ==
  /\ Done /\ op = "query" /\ GotResponse /\ Len(Results) = 2
  /\ IsErrorWithPayload(Results[1])
  /\ ~IsOkClose(Results[2])
  /\ IsErr("Pipeline")

\* Every result before the close position is one the call accepts: in a
\* batch each statement result yields an outcome, in query and execute
\* result 0 is an ok execute result with its payload.
PriorAccepted ==
  IF op = "batch"
  THEN \A i \in 1..N : Accepted(Results[i], statements[i].want_rows)
  ELSE IsOkExecute(Results[1])

\* C5 as stated: with N+1 results, an error result at the close position
\* always gives Pipeline{request_index: N}, and an ok result without a close
\* response or a result of unknown kind always gives Decode.
C5_CloseAlwaysDecides ==
  (Done /\ GotResponse /\ Len(Results) = N + 1)
  => LET c == Results[N + 1]
     IN /\ c.kind = "error" => (IsErr("Pipeline") /\ result.err.request_index = N)
        /\ (c.kind = "ok" /\ ~IsOkClose(c)) => IsErr("Decode")
        /\ c.kind \notin {"ok", "error"} => IsErr("Decode")

\* C5, amended: with N+1 results, a close result that is not an ok close
\* response always fails the call; when every result before it is accepted,
\* the close result decides the error: Pipeline{request_index: N} with its
\* message and code for an error result with a payload, Decode for an error
\* result without payload, an ok result without a close response and a
\* result of unknown kind.
C5_CloseValidated ==
  (Done /\ GotResponse /\ Len(Results) = N + 1)
  => LET c == Results[N + 1]
     IN /\ ~IsOkClose(c) => ~result.ok
        /\ PriorAccepted =>
             /\ IsErrorWithPayload(c) =>
                  result = Err(Pipeline(N, c.error.v.message, c.error.v.code))
             /\ (c.kind = "error" /\ ~c.error.some) => IsErr("Decode")
             /\ (c.kind = "ok" /\ ~IsOkClose(c)) => IsErr("Decode")
             /\ c.kind \notin {"ok", "error"} => IsErr("Decode")

C5_Witness ==
  /\ Done /\ op = "batch" /\ GotResponse /\ N = 2 /\ Len(Results) = 3
  /\ WellFormedOkExecute(Results[1], statements[1].want_rows)
  /\ WellFormedOkExecute(Results[2], statements[2].want_rows)
  /\ IsErrorWithPayload(Results[3])
  /\ IsErr("Pipeline") /\ result.err.request_index = 2

\* C6: when an attempt ends with a non-2xx status, the call goes on to wait
\* and send again exactly when the status is 429, 500, 502, 503 or 504 and
\* fewer than max_retries retries were made; otherwise it returns Http with
\* that status and body, and a returned call sends nothing more.
C6_HttpRetryPolicy ==
  [][ /\ (pc = "body" /\ ~is_success(status) /\ last'.kind = "response") =>
           IF status \in RetryableStatuses /\ RetriesMade < options.max_retries
           THEN pc' = "wait" /\ sent' = sent
           ELSE pc' = "done" /\ result' = Err(Http(status, body'.text)) /\ sent' = sent
      /\ pc = "wait" => (pc' = "send" /\ sent' = sent)
      /\ pc = "send" => (pc' = "inflight" /\ Len(sent') = Len(sent) + 1)
      /\ pc = "done" => (pc' = "done" /\ sent' = sent) ]_vars

C6_Witness ==
  /\ Done /\ options.max_retries = 2 /\ Len(sent) = 3
  /\ IsErr("Http") /\ result.err.status = 503

IsRetryableClass(err) == err.is_timeout \/ err.is_connect \/ err.is_request \/ err.is_body

\* C7 as stated: every transport failure of an attempt that is classified as
\* timeout, connection, request or body error, the failure of reading the
\* body included, is followed by a retry while fewer than max_retries
\* retries were made.
C7_TransportFailureRetried ==
  [][ (/\ pc \in {"inflight", "body"}
       /\ last'.kind \in {"send_error", "body_error"}
       /\ IsRetryableClass(last'.err)
       /\ RetriesMade < options.max_retries)
      => pc' = "wait" ]_vars

\* A call that finished with a valid response: N+1 results, the statement
\* results accepted and decodable, the close result an ok close response.
ValidResponse ==
  /\ GotResponse
  /\ Len(Results) = N + 1
  /\ IsOkClose(Results[N + 1])
  /\ IF op = "batch"
     THEN \A i \in 1..N : Accepted(Results[i], statements[i].want_rows)
     ELSE WellFormedOkExecute(Results[1], statements[1].want_rows)

\* C8: a call whose encoding succeeded sends at least 1 and at most
\* max_retries+1 requests whatever the number of statements, exactly 1 when
\* max_retries = 0, and when k attempts failed and the next one brought a
\* valid 2xx response the call succeeds with exactly k+1 requests sent.
C8_RequestCount ==
  Encoded =>
    /\ Len(sent) <= options.max_retries + 1
    /\ pc \in {"inflight", "body", "wait", "done"} => Len(sent) >= 1
    /\ (Done /\ options.max_retries = 0) => Len(sent) = 1
    /\ (Done /\ ValidResponse) =>
         (result.ok /\ failed <= options.max_retries /\ Len(sent) = failed + 1)

C8_Witness ==
  /\ Done /\ op = "batch" /\ N = 2 /\ options.max_retries = 2
  /\ ValidResponse /\ result.ok /\ failed = 2 /\ Len(sent) = 3

\* C9: once an attempt received a 2xx status the call sends no further
\* request, whatever max_retries is: it returns at once, with Decode
\* embedding the raw body when the body is not a pipeline response, and
\* with success, Decode or Pipeline otherwise.
C9_NoRetryAfter2xx ==
  [][ /\ (pc = "body" /\ is_success(status)) => (pc' = "done" /\ sent' = sent)
      /\ (pc = "body" /\ is_success(status) /\ last'.kind = "response") =>
           IF body'.parsed.some
           THEN result'.ok \/ result'.err.tag \in {"Decode", "Pipeline"}
           ELSE result' = Err(Decode("invalid pipeline response JSON", -1, body'.text))
      /\ pc = "done" => (pc' = "done" /\ sent' = sent /\ result' = result) ]_vars

C9_Witness ==
  /\ Done /\ options.max_retries = 2 /\ Len(sent) = 1
  /\ Got2xx /\ ~body.parsed.some
  /\ IsErr("Decode") /\ result.err.raw = body.text

\* C10: every attempt of a call sends the same body: the requests of the
\* first attempt, in the same order with the same SQL, parameters and
\* want_rows flags, and nothing besides the requests.
C10_SameBodyEveryAttempt ==
  \A i \in 1..Len(sent) :
    /\ sent[i] = sent[1]
    /\ DOMAIN sent[i] = {"requests"}
    /\ Len(sent[i].requests) = N + 1
    /\ \A k \in 1..N :
         /\ DOMAIN sent[i].requests[k] = {"type", "stmt"}
         /\ sent[i].requests[k].stmt.sql = statements[k].sql
         /\ sent[i].requests[k].stmt.want_rows = statements[k].want_rows
         /\ DOMAIN sent[i].requests[k].stmt \subseteq {"sql", "args", "named_args", "want_rows"}
    /\ DOMAIN sent[i].requests[N + 1] = {"type"}

C10_Witness ==
  /\ op = "batch" /\ N = 2 /\ Len(sent) = 3
  /\ statements[1].want_rows /\ ~statements[2].want_rows

\* The values a statement's parameters carry, in order.
ParamValues(params) ==
  IF params.tag = "Positional" THEN params.values
  ELSE [i \in 1..Len(params.values) |-> params.values[i].value]

NonFinite(v) == v.tag = "Float" /\ ~is_finite(v.f)
HasNonFinite(stmt) ==
  \E i \in 1..Len(ParamValues(stmt.params)) : NonFinite(ParamValues(stmt.params)[i])

\* C11: a call one of whose statements, at any position, carries a NaN, +inf
\* or -inf parameter has failed with a Decode error and has sent no request,
\* also when valid statements precede that statement.
C11_NonFiniteFailsBeforeSend ==
  (pc # "idle" /\ \E k \in 1..N : HasNonFinite(statements[k]))
  => (Done /\ IsErr("Decode") /\ sent = <<>> /\ ~Encoded)

C11_Witness ==
  /\ Done /\ op = "batch" /\ N = 2
  /\ ~HasNonFinite(statements[1])
  /\ statements[2].params.tag = "Named" /\ HasNonFinite(statements[2])
  /\ IsErr("Decode") /\ sent = <<>>

\* C13: every payload sent for N statements has N+1 requests: N Execute
\* requests in the caller's order, each with its statement's SQL and want_rows
\* flag (true in query, false in execute), then the only Close request, at
\* index N.
C13_PayloadShape ==
  \A i \in 1..Len(sent) :
    LET requests == sent[i].requests
    IN /\ Len(requests) = N + 1
       /\ \A k \in 1..N :
            /\ requests[k].type = "execute"
            /\ requests[k].stmt.sql = statements[k].sql
            /\ requests[k].stmt.want_rows = statements[k].want_rows
       /\ requests[N + 1].type = "close"
       /\ op = "query" => (N = 1 /\ requests[1].stmt.want_rows)
       /\ op = "execute" => (N = 1 /\ ~requests[1].stmt.want_rows)

C13_Witness ==
  /\ op = "batch" /\ N = 2 /\ Len(sent) = 1
  /\ ~statements[1].want_rows /\ statements[2].want_rows
  /\ sent[1].requests[3].type = "close"

Called(fn) == codec.fn = fn

\* One leading ':', '@' or '$' removed, when there is one.
StripOne(name) ==
  IF name # <<>> /\ Head(name) \in {":", "@", "$"} THEN Tail(name) ELSE name

\* C12 as stated: the encoder removes exactly one leading ':', '@' or '$'
\* from a name and nothing otherwise, and fails when the stripped name is
\* empty.
C12_StripsExactlyOne ==
  Called("normalize_named_parameter_name")
  => IF StripOne(codec.input) = <<>> THEN ~codec.output.ok
     ELSE codec.output = Ok(StripOne(codec.input))

\* C14: in a built wire statement args and named_args are never both
\* present and a present list is never empty: non-empty positional
\* parameters give args only, non-empty named parameters give named_args
\* only, empty parameters of either kind give neither, in the statement and
\* in its JSON object.
C14_ArgsExclusive ==
  (Called("build_execute_statement") /\ codec.output.ok)
  => LET stmt == codec.output.val
         params == codec.input.params
         given == params.values # <<>>
     IN /\ ~(stmt.args.some /\ stmt.named_args.some)
        /\ stmt.args.some => stmt.args.v # <<>>
        /\ stmt.named_args.some => stmt.named_args.v # <<>>
        /\ stmt.args.some <=> (params.tag = "Positional" /\ given)
        /\ stmt.named_args.some <=> (params.tag = "Named" /\ given)
        /\ DOMAIN json_stmt(stmt) =
             {"sql", "want_rows"}
               \cup (IF stmt.args.some THEN {"args"} ELSE {})
               \cup (IF stmt.named_args.some THEN {"named_args"} ELSE {})

C14_Witness ==
  /\ Called("build_execute_statement") /\ codec.output.ok
  /\ codec.input.params = Positional(<<>>)
  /\ ~codec.output.val.args.some /\ ~codec.output.val.named_args.some

\* A text of decimal digits after an optional sign, and the integer it
\* denotes.
Numeric(t) ==
  /\ Unsigned(t) # <<>>
  /\ \A i \in 1..Len(Unsigned(t)) : IsDigit(Unsigned(t)[i])

RECURSIVE StripZeros(_)
StripZeros(digits) ==
  IF Len(digits) > 1 /\ Head(digits) = "0" THEN StripZeros(Tail(digits)) ELSE digits

Denotes(t, n) ==
  /\ Numeric(t)
  /\ StripZeros(Unsigned(t)) = NatToStr(Abs(n))
  /\ n < 0 => Head(t) = "-"
  /\ n > 0 => Head(t) # "-"

DenotesNoI64(t) == ~Numeric(t) \/ \A n \in I64s : ~Denotes(t, n)

\* The output is a Decode error that names the raw text.
DecodeNaming(output, raw) == ~output.ok /\ output.err.tag = "Decode" /\ output.err.raw = raw

\* C15: decode_exec_result returns last_insert_rowid None when the wire
\* field is absent and Some(n) when the wire text denotes the i64 n; when the
\* text denotes no i64 (not numeric, or out of range) it fails with a Decode
\* error naming the text.
C15_LastInsertRowid ==
  Called("decode_exec_result")
  => LET rowid == codec.input.last_insert_rowid
     IN IF ~rowid.some
        THEN codec.output.ok /\ ~codec.output.val.last_insert_rowid.some
        ELSE IF codec.output.ok
        THEN /\ codec.output.val.last_insert_rowid.some
             /\ codec.output.val.last_insert_rowid.v \in I64s
             /\ Denotes(rowid.v, codec.output.val.last_insert_rowid.v)
        ELSE /\ DenotesNoI64(rowid.v)
             /\ DecodeNaming(codec.output, rowid.v)
             /\ codec.output.err.what = "invalid last_insert_rowid"

C15_Witness ==
  /\ Called("decode_exec_result")
  /\ codec.input.last_insert_rowid = Some(<<"-", "3", "2", "7", "6", "9">>)
  /\ DecodeNaming(codec.output, <<"-", "3", "2", "7", "6", "9">>)

\* Digits with at most one '.', at least one digit.
IsMantissa(t) ==
  /\ \A i \in 1..Len(t) : IsDigit(t[i]) \/ t[i] = "."
  /\ \E i \in 1..Len(t) : IsDigit(t[i])
  /\ \A i, j \in 1..Len(t) : (t[i] = "." /\ t[j] = ".") => i = j

\* A decimal float literal: sign, mantissa, optional exponent.
IsFloatLiteral(t) ==
  LET b == Unsigned(t)
      e == IndexOf(LowerStr(b), "e")
  IN IF e = 0 THEN IsMantissa(b)
     ELSE IsMantissa(SubSeq(b, 1, e - 1)) /\ Numeric(SubSeq(b, e + 1, Len(b)))

\* C16: decode_value on an integer payload that denotes no i64, on a float
\* payload that is no float literal, or on a float payload whose value is
\* not finite, returns a Decode error naming the raw text; a value is
\* returned only for a text that denotes it, never a default.
C16_BadNumberIsDecode ==
  (Called("decode_value") /\ codec.input.type \in {"integer", "float"})
  => LET raw == codec.input.value
         out == codec.output
     IN IF codec.input.type = "integer"
        THEN IF out.ok
             THEN out.val.tag = "Integer" /\ out.val.i \in I64s /\ Denotes(raw, out.val.i)
             ELSE DenotesNoI64(raw) /\ DecodeNaming(out, raw)
        ELSE IF out.ok
             THEN /\ out.val.tag = "Float" /\ is_finite(out.val.f)
                  /\ IsFloatLiteral(raw)
                  /\ ParseF64(raw) = Ok(out.val.f)
             ELSE /\ DecodeNaming(out, raw)
                  /\ ~IsFloatLiteral(raw) \/ ~is_finite(ParseF64(raw).val)

C16_Witness ==
  /\ Called("decode_value")
  /\ codec.input = WFloat(<<"1", "e", "9", "9", "9">>)
  /\ DecodeNaming(codec.output, <<"1", "e", "9", "9", "9">>)
  /\ codec.output.err.what = "non-finite float value is unsupported"

\* The call of decode_value on what encode_value returned for a value of
\* one of the given kinds.
DecodesEncoded(tags) ==
  /\ codec.fn = "encode_value"
  /\ codec.input.tag \in tags
  /\ codec'.fn = "decode_value"

\* C17: encode_value turns every i64 v, i64::MIN and i64::MAX included,
\* into a wire integer whose payload is the decimal text of v, and
\* decode_value of the encoded value is Integer(v) again; Null, Text and
\* BlobBase64 values come back unchanged too.
C17_IntegerRoundTrip ==
  [][ /\ (codec'.fn = "encode_value" /\ codec'.input.tag = "Integer") =>
           /\ codec'.output.ok
           /\ codec'.output.val.type = "integer"
           /\ Denotes(codec'.output.val.value, codec'.input.i)
           /\ Unsigned(codec'.output.val.value) = StripZeros(Unsigned(codec'.output.val.value))
           /\ Head(codec'.output.val.value) # "+"
      /\ (codec'.fn = "encode_value" /\ codec'.input.tag \in {"Null", "Text", "BlobBase64"}) =>
           codec'.output.ok
      /\ DecodesEncoded({"Null", "Integer", "Text", "BlobBase64"}) =>
           /\ codec'.input = codec.output.val
           /\ codec'.output = Ok(codec.input) ]_vars

C17_Witness ==
  /\ Called("decode_value")
  /\ codec.input = WInteger(IntToStr(I64_MIN + 1))
  /\ codec.output = Ok(VInteger(I64_MIN + 1))

\* C18: for every finite float v, encode_value carries v as a decimal text
\* in a float payload and decode_value of the encoded value is Float(v)
\* again.
C18_FloatRoundTrip ==
  [][ /\ (codec'.fn = "encode_value" /\ codec'.input.tag = "Float"
            /\ is_finite(codec'.input.f)) =>
           /\ codec'.output.ok
           /\ codec'.output.val.type = "float"
           /\ IsFloatLiteral(codec'.output.val.value)
      /\ (DecodesEncoded({"Float"}) /\ is_finite(codec.input.f)) =>
           /\ codec'.input = codec.output.val
           /\ codec'.output = Ok(codec.input) ]_vars

C18_Witness ==
  /\ Called("decode_value")
  /\ codec.input = WFloat(<<"-", "0", ".", "1", "0", "5">>)
  /\ codec.output = Ok(VFloat(Finite(-105, 3)))

\* C19: when an attempt times out, in send or while the body is read, and
\* no retry remains, the call returns Transport with that timeout as its
\* cause, never Http, Decode, Pipeline or success; every request sent has the
\* whole timeout_ms for itself, whatever the attempts and sleeps before it
\* took.
C19_TimeoutIsTransport ==
  [][ /\ (/\ pc \in {"inflight", "body"}
          /\ last'.kind \in {"send_error", "body_error"}
          /\ last'.err.is_timeout
          /\ RetriesMade >= options.max_retries)
         => /\ pc' = "done"
            /\ result' = Err(Transport(last'.err))
            /\ result'.err.source.is_timeout
            /\ sent' = sent
      /\ pc = "send" => timers' = Append(timers, options.timeout_ms)
      /\ pc # "send" => timers' = timers
      /\ Len(timers') = Len(sent') ]_vars

C19_Witness ==
  /\ Done /\ options.max_retries = 2 /\ Len(sent) = 3 /\ failed = 3
  /\ waits = <<250, 500>>
  /\ timers = <<10000, 10000, 10000>>
  /\ last.kind = "send_error"
  /\ IsErr("Transport") /\ result.err.source.is_timeout

\* C20 as stated: in every QueryResult that decode_query_result returns,
\* each row is as wide as the list of columns, whatever rows and columns the
\* response carries.
C20_RowWidthIsColumnCount ==
  (Called("decode_query_result") /\ codec.output.ok)
  => \A i \in 1..Len(codec.output.val.rows) :
       Len(codec.output.val.rows[i]) = Len(codec.output.val.cols)

\* A batch that finished on a response with N+1 results and an ok close.
BatchClosedOk ==
  /\ Done /\ op = "batch" /\ GotResponse
  /\ Len(Results) = N + 1
  /\ IsOkClose(Results[N + 1])

\* Unknown kind, missing response, result or error payload, or a response
\* kind other than "execute".
StructurallyInvalid(r) == ~IsOkExecute(r) /\ ~IsErrorWithPayload(r)

\* An ok execute result one of whose fields read for want_rows does not
\* decode: a row value for want_rows, last_insert_rowid otherwise.
Undecodable(r, want_rows) ==
  IsOkExecute(r) /\ ~Decodable(r.response.v.result.v, want_rows)

\* C21 as stated: in a batch whose response has N+1 results and an ok close,
\* the call fails only if some statement result is structurally invalid.
C21_OnlyStructureFails ==
  BatchClosedOk =>
    (~result.ok => \E i \in 1..N : StructurallyInvalid(Results[i]))

\* C21, amended: in a batch whose response has N+1 results and an ok close,
\* the call fails only if some statement result is structurally invalid or is
\* an ok execute result with a field, among those read for the statement's
\* want_rows, that does not decode, and then it fails with Decode; with any
\* other statement results, ok or error, the call returns N outcomes.
C21_OnlyInvalidOrUndecodableFails ==
  BatchClosedOk =>
    /\ ~result.ok =>
         /\ IsErr("Decode")
         /\ \E i \in 1..N :
              \/ StructurallyInvalid(Results[i])
              \/ Undecodable(Results[i], statements[i].want_rows)
    /\ result.ok => Len(result.val) = N

C21_Witness ==
  /\ BatchClosedOk /\ N = 2
  /\ IsErrorWithPayload(Results[1]) /\ ~Results[1].error.v.code.some
  /\ Undecodable(Results[2], statements[2].want_rows)
  /\ statements[2].want_rows
  /\ IsErr("Decode") /\ result.err.what = "invalid integer value"

\* The attempts of the call that have completed: those that failed, and the
\* one whose 2xx response was read.
Completed == failed + (IF Got2xx THEN 1 ELSE 0)

\* The requests of the call that are in flight.
InFlight == Len(sent) - Completed

\* C22: at every moment at most one request of the call is in flight; a
\* request is sent only when none is in flight, every earlier attempt has
\* completed and the backoff wait that follows the latest one has elapsed;
\* a wait starts only when the attempt before it has completed, and nothing
\* is sent while it lasts.
C22_SequentialAttempts ==
  [][ /\ InFlight' \in {0, 1}
      /\ Len(sent') # Len(sent) =>
           /\ Len(sent') = Len(sent) + 1
           /\ InFlight = 0
           /\ pc = "send"
           /\ Len(waits) = Len(sent)
           /\ Len(sent) > 0 => last.kind \in {"send_error", "response"}
      /\ waits' # waits =>
           /\ Len(waits') = Len(waits) + 1
           /\ Len(waits') = Len(sent)
           /\ InFlight' = 0
           /\ pc' = "wait"
      /\ pc = "wait" => (sent' = sent /\ waits' = waits /\ pc' = "send") ]_vars

C22_Witness ==
  /\ op = "query" /\ pc = "inflight"
  /\ Len(sent) = 3 /\ Len(waits) = 2 /\ failed = 2 /\ InFlight = 1

\* The latest attempt of a call ended in a failure that the policy retries.
RetryableOutcome(l) ==
  \/ l.kind = "send_error" /\ IsRetryableClass(l.err)
  \/ l.kind = "response" /\ l.status \in RetryableStatuses

\* What a call returns after its latest attempt, from its own locals.
OwnResult(call) ==
  CASE call.last.kind \in {"send_error", "body_error"} -> Err(Transport(call.last.err))
    [] call.last.kind = "response" /\ ~is_success(call.last.status) ->
         Err(Http(call.last.status, call.body.text))
    [] OTHER -> call_response_result(call, parse_response(call.body))

\* C23: with two calls interleaved on one client, a step of one call changes
\* nothing of the other call and nothing of the client's url, token and
\* options; after a retryable failure a call retries exactly when it has
\* itself made fewer than max_retries retries, whatever the other call did;
\* every request of a call carries that call's payload, and what a call
\* returns is determined by its own statements and its own latest attempt.
C23_CallsIndependent ==
  [][ /\ options' = options
      /\ endpoint' = endpoint
      /\ \A c \in CallIds : \A d \in CallIds \ {c} :
           calls'[c] # calls[c] => calls'[d] = calls[d]
      /\ \A c \in CallIds :
           /\ (/\ calls[c].pc \in {"inflight", "body"}
               /\ calls'[c].last.kind \in {"send_error", "response"}
               /\ RetryableOutcome(calls'[c].last))
              => IF Len(calls[c].sent) - 1 < options.max_retries
                 THEN calls'[c].pc = "wait" /\ calls'[c].attempt = Len(calls[c].sent) - 1
                 ELSE calls'[c].pc = "done"
           /\ (calls[c].pc # "done" /\ calls'[c].pc = "done" /\ calls'[c].sent # <<>>)
              => calls'[c].result = OwnResult(calls'[c])
           /\ \A i \in 1..Len(calls'[c].sent) :
                calls'[c].sent[i] =
                  [pipeline_url |-> "https://db/v2/pipeline", authorization |-> "Bearer t",
                   json |-> json(calls'[c].payload)] ]_vars

C23_Witness ==
  /\ options.max_retries = 2
  /\ calls[1].pc = "done" /\ calls[1].op = "query" /\ Len(calls[1].sent) = 3
  /\ calls[1].result = Err(Http(503, <<"boom">>))
  /\ calls[2].pc = "wait" /\ calls[2].op = "batch" /\ Len(calls[2].sent) = 2
  /\ calls[2].waits = <<250, 500>>

\* The exponent of the backoff after failed attempt a.
BackoffExponent(a) == IF a < 16 THEN a ELSE 16

\* C24 as stated: the wait before the retry that follows failed attempt a is
\* retry_backoff_ms * 2^min(a, 16) for every retry_backoff_ms of 64 bits and
\* every a.
C24_WaitIsProduct ==
  Called("wait_before_retry")
  => /\ codec.output.val \div 2 ^ BackoffExponent(codec.input.attempt)
          = codec.input.retry_backoff_ms
     /\ codec.output.val % 2 ^ BackoffExponent(codec.input.attempt) = 0

\* C24, amended: the wait before the retry that follows failed attempt a is
\* retry_backoff_ms * 2^min(a, 16) when that product fits in 64 bits and
\* u64::MAX otherwise: the exponent never exceeds 16 and the computation
\* never wraps around, so the wait is never shorter than retry_backoff_ms.
C24_WaitIsSaturatedProduct ==
  Called("wait_before_retry")
  => /\ codec.output.ok
     /\ IF codec.input.retry_backoff_ms
             <= U64_MAX \div 2 ^ BackoffExponent(codec.input.attempt)
        THEN codec.output.val =
               codec.input.retry_backoff_ms * 2 ^ BackoffExponent(codec.input.attempt)
        ELSE codec.output.val = U64_MAX
     /\ codec.output.val >= codec.input.retry_backoff_ms

C24_Witness ==
  /\ Called("wait_before_retry")
  /\ codec.input = [retry_backoff_ms |-> 17, attempt |-> 18]
  /\ codec.output = Ok(U64_MAX)

\* A query or execute call that finished on a response with 2 results.
SingleGot2 ==
  /\ Done /\ op \in {"query", "execute"} /\ GotResponse
  /\ Len(Results) = 2

\* C25: in a query or execute call with a 2-result response, the call
\* returns data only if result 0 is an ok result whose response is of kind
\* "execute" and carries a result payload; an ok result with a missing
\* response, with a response of another kind or without result payload, an
\* error result without error payload and a result of any other kind each
\* make the call fail with a Decode error about request 0, whatever the close
\* result is.
C25_SingleResultShape ==
  SingleGot2 =>
    /\ result.ok => IsOkExecute(Results[1])
    /\ StructurallyInvalid(Results[1]) => (IsErr("Decode") /\ result.err.index = 0)
    /\ (Results[1].kind = "ok" /\ ~Results[1].response.some)
       => result = Err(Decode("missing response payload for request", 0, <<>>))
    /\ (Results[1].kind = "ok" /\ Results[1].response.some
          /\ Results[1].response.v.kind # "execute")
       => result = Err(Decode("expected execute response at request", 0,
                              <<Results[1].response.v.kind>>))
    /\ (Results[1].kind = "ok" /\ Results[1].response.some
          /\ Results[1].response.v.kind = "execute" /\ ~Results[1].response.v.result.some)
       => result = Err(Decode("missing execute result payload at request", 0, <<>>))
    /\ (Results[1].kind = "error" /\ ~Results[1].error.some)
       => result = Err(Decode("missing error payload for request", 0, <<>>))
    /\ Results[1].kind \notin {"ok", "error"}
       => result = Err(Decode("unknown pipeline result type", 0, <<Results[1].kind>>))

C25_Witness ==
  /\ SingleGot2 /\ op = "execute"
  /\ Results[1].kind = "ok" /\ Results[1].response.some
  /\ Results[1].response.v.kind = "execute" /\ ~Results[1].response.v.result.some
  /\ IsErrorWithPayload(Results[2])
  /\ IsErr("Decode")

\* C26: the attempt index starts at 0, changes only by growing by 1 when the
\* sleep that follows a retryable failure is over, and never exceeds
\* max_retries; when every attempt completes, a call that was made returns:
\* with a success or with one error, Transport, Http, Pipeline or Decode,
\* that it keeps.
C26_BoundedRetryLoop ==
  /\ attempt = 0
  /\ [][ /\ attempt' \in 0..options.max_retries
         /\ attempt' # attempt =>
              /\ attempt' = attempt + 1
              /\ pc = "wait"
              /\ RetryableOutcome(last)
         /\ pc' \in {"idle", "send"} /\ sent' = <<>> => attempt' = 0
         /\ pc' = "done" =>
              (result'.ok \/ result'.err.tag \in {"Transport", "Http", "Pipeline", "Decode"})
         /\ pc = "done" => (pc' = "done" /\ result' = result /\ attempt' = attempt) ]_vars
  /\ (pc # "idle") ~> Done

C26_Witness ==
  /\ Done /\ op = "execute"
  /\ options.max_retries = 2 /\ attempt = 2 /\ Len(sent) = 3 /\ failed = 3
  /\ last.kind = "response" /\ last.status = 429
  /\ IsErr("Http")

\* The waits a call has started when it has sent its requests and stands at
\* its position: one after every attempt but the one in flight or the one
\* that ended the call.
WaitsDue(position, requests) ==
  IF requests = 0 THEN 0
  ELSE IF position \in {"wait", "send"} THEN requests
  ELSE requests - 1

\* C27: a call waits exactly once between two consecutive attempts, never
\* before the first attempt and never after the attempt that ends the call;
\* the wait starts when an attempt has failed with a retryable failure, with
\* the delay of the attempt index not yet incremented; the index is
\* incremented when the wait is over, and the next request is sent after that.
C27_OneWaitBetweenAttempts ==
  [][ /\ Len(waits') = WaitsDue(pc', Len(sent'))
      /\ \A k \in 1..Len(waits') :
           waits'[k] = wait_before_retry(options.retry_backoff_ms, k - 1)
      /\ waits' # waits =>
           /\ pc \in {"inflight", "body"} /\ pc' = "wait"
           /\ RetryableOutcome(last')
           /\ attempt' = attempt /\ sent' = sent
      /\ attempt' # attempt =>
           /\ pc = "wait" /\ pc' = "send"
           /\ attempt' = Len(waits)
           /\ waits' = waits /\ sent' = sent
      /\ sent' # sent =>
           /\ pc = "send"
           /\ attempt = Len(sent) /\ attempt' = attempt
           /\ waits' = waits
      /\ pc' = "done" => waits' = waits ]_vars

C27_Witness ==
  /\ op = "batch" /\ pc = "send"
  /\ attempt = 2 /\ Len(sent) = 2 /\ waits = <<250, 500>>
  /\ last.kind = "send_error" /\ last.err.is_connect

\* C28: when the results array of a 2xx response has not N+1 elements and
\* holds an error result, the call fails with the Decode error of the count,
\* which names the expected and the received number, and not with Pipeline
\* or with the Decode error of a result: no result is examined.
C28_CountBeforeContents ==
  (/\ Done /\ GotResponse
   /\ Len(Results) # N + 1
   /\ \E i \in 1..Len(Results) : Results[i].kind = "error")
  => /\ ~IsErr("Pipeline")
     /\ result = Err(Decode("result count mismatch", N + 1, NatToStr(Len(Results))))

C28_Witness ==
  /\ Done /\ op = "query" /\ GotResponse
  /\ Len(Results) = 1 /\ IsErrorWithPayload(Results[1])
  /\ IsErr("Decode") /\ result.err.raw = <<"1">>

AllOkExecute ==
  /\ Done /\ GotResponse
  /\ Len(Results) = N + 1
  /\ IsOkClose(Results[N + 1])
  /\ \A i \in 1..N : IsOkExecute(Results[i])

RowsDecode(er) ==
  \A i \in 1..Len(er.rows) : \A j \in 1..Len(er.rows[i]) : decode_value(er.rows[i][j]).ok

RowidParses(er) == er.last_insert_rowid.some => ParseI64(er.last_insert_rowid.v).ok

\* What the call returned for statement i.
Returned(i) ==
  IF op = "batch"
  THEN (IF statements[i].want_rows THEN result.val[i].q ELSE result.val[i].e)
  ELSE result.val

\* C30: on a response of ok execute results, a call succeeds exactly when
\* the row values of every want_rows statement decode and the
\* last_insert_rowid of every other statement parses: a malformed
\* last_insert_rowid does not fail a query and malformed row values do not
\* fail an execute; what is returned for a want_rows statement has no
\* last_insert_rowid, and what is returned for another statement has no rows
\* and no columns.
C30_WantRowsSelectsFields ==
  AllOkExecute =>
    /\ result.ok <=>
         \A i \in 1..N :
           IF statements[i].want_rows
           THEN RowsDecode(Results[i].response.v.result.v)
           ELSE RowidParses(Results[i].response.v.result.v)
    /\ result.ok =>
         \A i \in 1..N :
           IF statements[i].want_rows
           THEN /\ "last_insert_rowid" \notin DOMAIN Returned(i)
                /\ Len(Returned(i).rows) = Len(Results[i].response.v.result.v.rows)
           ELSE /\ "rows" \notin DOMAIN Returned(i)
                /\ "cols" \notin DOMAIN Returned(i)
                /\ "last_insert_rowid" \in DOMAIN Returned(i)

C30_Witness ==
  /\ AllOkExecute /\ op = "batch" /\ N = 2
  /\ statements[1].want_rows /\ ~statements[2].want_rows
  /\ ~RowidParses(Results[1].response.v.result.v)
  /\ ~RowsDecode(Results[2].response.v.result.v)
  /\ result.ok

====
